---- MODULE Spec2Model ----
(***************************************************************************)
(* The vult secret store: the authentication/session state machine of      *)
(* AuthService, the record operations of KeyService and the key hierarchy  *)
(* of the crypto module.                                                    *)
(*                                                                         *)
(* Option<T> values are sequences: << >> is None, <<x>> is Some(x).        *)
(* Result<T> values are records with a field res ("Ok" or an error name).  *)
(***************************************************************************)
EXTENDS Integers, Sequences, FiniteSets, TLC

\* ------------------------------------------------------------------ bounds
\* PIN identities: two PINs are the same string iff id and len agree.
MaxPinId == 3
\* vault salts a generate_salt() call may return
MaxSalt == 2
\* per-secret salts a generate_salt() call may return
MaxKeySalt == 1
\* auth calls that may be in progress at the same time
MaxTasks == 2
\* recorded failures up to which concurrent calls try a wrong PIN
MaxConcFails == 1
\* number of values the verification byte can take (256 in the program)
ByteRange == 2
\* the distinct Utc::now() timestamps a create or an update can draw
MaxTime == 2
\* the auto-lock timeout the AuthManager is built with, in seconds
MaxIdle == 3
\* the longest ciphertext handed to decrypt, in bytes
MaxBlobLen == 2

\* -------------------------------------------------------- program constants
MIN_PIN_LENGTH == 6
MAX_PIN_LENGTH == 64
MAX_FAILED_ATTEMPTS == 10
MAX_BACKOFF_EXP == 5
SCHEMA_VERSION == 2
\* the byte of the all-zero key_salt that marks a row as not yet re-encrypted
DEFAULT_SALT == 0
\* the length of an AES-GCM nonce
NONCE_LEN == 12

\* ------------------------------------------------------------------ inputs
\* A PIN is a string: len is its pin.len() (bytes), ascii says that all its
\* characters are printable ASCII. The PINs exercised: printable PINs of a
\* valid length, one that is too short, one that is too long, and one of 7
\* bytes with a two-byte character.
PinLens == {MIN_PIN_LENGTH - 1, MIN_PIN_LENGTH, MAX_PIN_LENGTH + 1}
Pins == {p \in [id : 1..MaxPinId, len : PinLens, ascii : {TRUE}] :
            p.len = MIN_PIN_LENGTH \/ p.id = 1}
        \cup {[id |-> 1, len |-> MIN_PIN_LENGTH + 1, ascii |-> FALSE]}

\* pin.chars().count(): a PIN that is not ASCII holds one two-byte character
Chars(pin) == IF pin.ascii THEN pin.len ELSE pin.len - 1
Salts == 1..MaxSalt
KeySalts == 1..MaxKeySalt

\* ------------------------------------------------------------------ state
VARIABLES
    cfgTable,         \* the vault_config table exists
    cfg,              \* the vault_config row id = 1: << >> or <<[salt, pin_hash]>>
    vault_key,        \* AuthService.vault_key: << >> or <<key>>
    is_unlocked,      \* AuthService.is_unlocked
    failed_attempts,  \* AuthService.failed_attempts
    records,          \* the rows of api_keys (written: history, the value the
                      \* last create or update of the row was given)
    vaultPin,         \* history: the PIN of the last successful init_vault/change_pin
    last,             \* the last completed call and what it returned
    tasks,            \* the auth calls in progress, by task
    initOk,           \* history: the number of init_vault calls that returned Ok
    manager,          \* the GUI's AuthManager and its auto-lock checker task
    db                \* a database file and the VaultDb call running on it

vars == <<cfgTable, cfg, vault_key, is_unlocked, failed_attempts, records,
          vaultPin, last, tasks, initOk, manager, db>>

\* ------------------------------------------------------------------ crypto
\* derive_key_from_pin: an error (<< >>) for a PIN shorter than 6, else the
\* Argon2id output, a key determined by (pin, salt) and different for
\* different inputs.
DeriveKeyFromPin(pin, salt) ==
    IF pin.len < 6 THEN << >> ELSE << [pin |-> pin, salt |-> salt] >>

\* vault_key.as_bytes()[0]: one byte of the derived key. Keys of different
\* PINs may share it.
FirstByte(key) == (key.pin.id + key.salt) % ByteRange

\* format!("${}:{first_byte}", salt_hex): the stored pin_hash text, as its
\* two ':'-separated parts.
FormatPinHash(salt, key) == << salt, FirstByte(key) >>

\* stored_hash.split(':').get(1).parse::<u8>().unwrap_or(255)
ExpectedByte(pin_hash) == IF Len(pin_hash) >= 2 THEN pin_hash[2] ELSE 255

\* validate_pin as init_vault maps its result: "Ok", "PinTooShort",
\* "PinTooLong", or "InvalidInput" for a character that is not printable ASCII
ValidatePin_NoMax(pin) ==
    IF pin.len < MIN_PIN_LENGTH THEN "PinTooShort"
    ELSE IF ~pin.ascii THEN "InvalidInput"
    ELSE "Ok"
ValidatePin(pin) ==
    IF pin.len < MIN_PIN_LENGTH THEN "PinTooShort"
    ELSE IF pin.len > MAX_PIN_LENGTH THEN "PinTooLong"
    ELSE IF ~pin.ascii THEN "InvalidInput"
    ELSE "Ok"

\* ------------------------------------------------------------ AuthService
\* unlock's rate limit: attempts >= 10
RateLimited_Off(attempts) == attempts > MAX_FAILED_ATTEMPTS
RateLimited(attempts) == attempts >= MAX_FAILED_ATTEMPTS

RECURSIVE Pow2(_)
Pow2(n) == IF n = 0 THEN 1 ELSE 2 * Pow2(n - 1)

Min(a, b) == IF a < b THEN a ELSE b

\* unlock's backoff in seconds: 2_u64.pow(attempts.min(5)) when attempts > 0
Backoff_Uncapped(attempts) == IF attempts > 0 THEN Pow2(attempts) ELSE 0
Backoff(attempts) ==
    IF attempts > 0 THEN Pow2(Min(attempts, MAX_BACKOFF_EXP)) ELSE 0

\* failed_attempts after a successful verification
AttemptsAfterSuccess_Keep(attempts) == attempts
AttemptsAfterSuccess(attempts) == 0

\* The whole of unlock(pin) run on its own from the state (tbl, c, vk, unl,
\* fa): the result and the state it leaves. The SELECT fails with a Database
\* error while the vault_config table does not exist.
UnlockOutcome_Wipes(pin, tbl, c, vk, unl, fa) ==
    [res |-> "InvalidPin", key |-> << >>, unl |-> FALSE, fa |-> fa + 1,
     slept |-> 0, verified |-> TRUE]
UnlockOutcome(pin, tbl, c, vk, unl, fa) ==
    LET same == [res |-> "Ok", key |-> vk, unl |-> unl, fa |-> fa,
                 slept |-> 0, verified |-> FALSE]
    IN
    IF RateLimited(fa) THEN [same EXCEPT !.res = "TooManyAttempts"]
    ELSE LET slept == Backoff(fa) IN
    IF ~tbl THEN [same EXCEPT !.res = "Database", !.slept = slept]
    ELSE IF c = << >> THEN [same EXCEPT !.res = "NotInitialized", !.slept = slept]
    ELSE LET derived == DeriveKeyFromPin(pin, c[1].salt) IN
    IF derived = << >> THEN [same EXCEPT !.res = "KeyDerivation", !.slept = slept]
    ELSE IF FirstByte(derived[1]) # ExpectedByte(c[1].pin_hash)
    THEN [same EXCEPT !.res = "InvalidPin", !.fa = fa + 1,
                      !.slept = slept, !.verified = TRUE]
    ELSE [res |-> "Ok", key |-> derived, unl |-> TRUE,
          fa |-> AttemptsAfterSuccess(fa), slept |-> slept, verified |-> TRUE]

NoLast == [op |-> "none", res |-> "Ok", slept |-> 0, verified |-> FALSE,
           arg |-> << >>]

AuthLast(op, pin, o) ==
    [op |-> op, res |-> o.res, slept |-> o.slept, verified |-> o.verified,
     arg |-> <<pin>>]

TaskIds == 1..MaxTasks

\* a task that runs no call
IdleTask == [op |-> "none", pc |-> "idle", pin |-> << >>, new_pin |-> << >>,
             salt |-> << >>, key |-> << >>, slept |-> 0, call |-> << >>]

\* no auth call is in progress
Idle == \A t \in TaskIds : tasks[t].pc = "idle"

\* AuthService::unlock
Unlock(pin) ==
    /\ Idle
    /\ LET o == UnlockOutcome(pin, cfgTable, cfg, vault_key, is_unlocked,
                                failed_attempts) IN
       /\ vault_key' = o.key
       /\ is_unlocked' = o.unl
       /\ failed_attempts' = o.fa
       /\ last' = AuthLast("unlock", pin, o)
    /\ UNCHANGED <<cfgTable, cfg, records, vaultPin, tasks>>
    /\ UNCHANGED <<initOk, manager, db>>

\* AuthService::lock
Lock ==
    /\ Idle
    /\ vault_key' = << >>
    /\ is_unlocked' = FALSE
    /\ last' = [NoLast EXCEPT !.op = "lock"]
    /\ UNCHANGED <<cfgTable, cfg, failed_attempts, records, vaultPin, tasks>>
    /\ UNCHANGED <<initOk, manager, db>>

\* AuthService::is_initialized: the vault_config table exists
IsInitialized_Never == FALSE
IsInitialized == cfgTable

\* AuthService::init_vault, with salt the generate_salt() it draws
InitVault(pin, salt) ==
    /\ Idle
    /\ LET v == ValidatePin(pin) IN
       IF v # "Ok" THEN
           /\ last' = [NoLast EXCEPT !.op = "init_vault", !.res = v, !.arg = <<pin>>]
           /\ UNCHANGED <<cfgTable, cfg, vault_key, is_unlocked, vaultPin, initOk>>
       ELSE IF IsInitialized THEN
           /\ last' = [NoLast EXCEPT !.op = "init_vault",
                                     !.res = "AlreadyInitialized", !.arg = <<pin>>]
           /\ UNCHANGED <<cfgTable, cfg, vault_key, is_unlocked, vaultPin, initOk>>
       ELSE
           LET key == DeriveKeyFromPin(pin, salt)[1] IN
           /\ cfgTable' = TRUE
           /\ cfg' = << [salt |-> salt, pin_hash |-> FormatPinHash(salt, key)] >>
           /\ vault_key' = <<key>>
           /\ is_unlocked' = TRUE
           /\ vaultPin' = <<pin>>
           /\ last' = [NoLast EXCEPT !.op = "init_vault", !.arg = <<pin>>]
           /\ initOk' = initOk + 1
    /\ UNCHANGED <<failed_attempts, records, tasks, manager, db>>

\* AuthService::change_pin, with salt the generate_salt() it draws
ChangePin(old_pin, new_pin, salt) ==
    /\ Idle
    /\ IF new_pin.len < MIN_PIN_LENGTH THEN
           /\ last' = [NoLast EXCEPT !.op = "change_pin", !.res = "PinTooShort",
                                     !.arg = <<old_pin>>]
           /\ UNCHANGED <<cfg, vault_key, is_unlocked, failed_attempts, vaultPin>>
       ELSE IF new_pin.len > MAX_PIN_LENGTH THEN
           /\ last' = [NoLast EXCEPT !.op = "change_pin", !.res = "PinTooLong",
                                     !.arg = <<old_pin>>]
           /\ UNCHANGED <<cfg, vault_key, is_unlocked, failed_attempts, vaultPin>>
       ELSE LET o == UnlockOutcome(old_pin, cfgTable, cfg, vault_key,
                                   is_unlocked, failed_attempts) IN
           /\ failed_attempts' = o.fa
           /\ is_unlocked' = o.unl
           /\ last' = AuthLast("change_pin", old_pin, o)
           /\ IF o.res # "Ok" THEN
                  /\ vault_key' = o.key
                  /\ UNCHANGED <<cfg, vaultPin>>
              ELSE
                  LET key == DeriveKeyFromPin(new_pin, salt)[1] IN
                  /\ cfg' = << [salt |-> salt,
                                pin_hash |-> FormatPinHash(salt, key)] >>
                  /\ vault_key' = <<key>>
                  /\ vaultPin' = <<new_pin>>
    /\ UNCHANGED <<cfgTable, records, tasks>>
    /\ UNCHANGED <<initOk, manager, db>>

\* AuthService::reset_failed_attempts
ResetFailedAttempts ==
    /\ Idle
    /\ failed_attempts' = 0
    /\ last' = [NoLast EXCEPT !.op = "reset_failed_attempts"]
    /\ UNCHANGED <<cfgTable, cfg, vault_key, is_unlocked, records, vaultPin, tasks>>
    /\ UNCHANGED <<initOk, manager, db>>

\* AuthService::new on a freshly opened, empty store
\* ------------------------------------------------------------ AuthManager
\* auto_lock_duration, in seconds
AutoLockSecs == MaxIdle

\* AuthManager::new with the auto-lock checker task at its interval.tick();
\* ticks counts the increments of the counter task since the most recent
\* update_activity, unlock or initialize
NewManager ==
    [vault_key |-> << >>, is_unlocked |-> FALSE, last_activity_secs |-> 0,
     failed_attempts |-> 0, checker |-> "poll", ticks |-> 0]

\* --------------------------------------------------------------- VaultDb
\* a database file that holds no table, with no call running on it
NewFile ==
    [schema_version |-> << >>, api_keys |-> << >>, api_keys_v2 |-> << >>,
     pc |-> "closed", rows |-> {}, base |-> {}, reencrypted |-> 0,
     res |-> "none", complete |-> FALSE, rerun |-> FALSE,
     interrupted |-> FALSE,
     found |-> << << >>, << >>, << >> >>]

\* the state after construction, but for the database file
InitState ==
    /\ cfgTable = FALSE
    /\ cfg = << >>
    /\ vault_key = << >>
    /\ is_unlocked = FALSE
    /\ failed_attempts = 0
    /\ records = {}
    /\ vaultPin = << >>
    /\ last = NoLast
    /\ tasks = [t \in TaskIds |-> IdleTask]
    /\ initOk = 0
    /\ manager = NewManager

Init ==
    /\ InitState
    /\ db = NewFile

\* ------------------------------------------------------------- KeyService
\* Option<String> application names, key names, secret values, descriptions
AppNames == {<< >>, <<"">>, <<"a">>}
KeyNames == {"k1", "k2"}
Values == {"v1", "v2"}
Descriptions == {<< >>, <<"d">>}
ApiUrls == {<< >>, <<"u">>}
\* Utc::now().timestamp()
Times == 1..MaxTime
\* UNIQUE(key_name) allows one record per key name: as many ids as key names
Ids == 1..Cardinality(KeyNames)

\* app_name.unwrap_or("")
AppStr(app) == IF app = << >> THEN "" ELSE app[1]

\* derive_per_key_encryption_key: the Argon2id output for the password
\* master_key || "app|key" and the per-key salt.
DerivePerKey(master_key, app_name, key_name, salt) ==
    [mk |-> master_key, ctx |-> app_name \o "|" \o key_name, salt |-> salt]

\* encrypt: AES-256-GCM under key; a value (ciphertext with its nonce) that
\* only the same key opens.
Encrypt(plaintext, key) == [key |-> key, pt |-> plaintext]

\* decrypt: the plaintext, or an error (<< >>) when authentication fails
Decrypt(encrypted, key) ==
    IF encrypted.key = key THEN <<encrypted.pt>> ELSE << >>

\* decrypt on the bytes of an EncryptedData, in a build with or without
\* debug assertions. The ciphertext is len bytes that are either the output
\* of encrypt (sealed, with the nonce it was made with) or anything else:
\* a wrong nonce length is an error, an empty ciphertext fails the
\* debug_assert!, and bytes that encrypt did not make under this key do not
\* authenticate.
DecryptData(debug_assertions, encrypted, key) ==
    IF encrypted.nonce_len # NONCE_LEN
    THEN [res |-> "InvalidNonceLength", out |-> << >>]
    ELSE IF debug_assertions /\ encrypted.len = 0
    THEN [res |-> "Panic", out |-> << >>]
    ELSE LET plaintext == IF encrypted.sealed = << >> THEN << >>
                          ELSE Decrypt(encrypted.sealed[1], key) IN
         IF plaintext = << >> THEN [res |-> "Decryption", out |-> << >>]
         ELSE [res |-> "Ok", out |-> plaintext]

\* CryptoService::encrypt_api_key, with salt the generate_salt() it draws
EncryptApiKey(value, master_key, app_name, key_name, salt) ==
    Encrypt(value, DerivePerKey(master_key, app_name, key_name, salt))

\* CryptoService::decrypt_api_key
DecryptApiKey(encrypted, master_key, app_name, key_name, salt) ==
    Decrypt(encrypted, DerivePerKey(master_key, app_name, key_name, salt))

\* KeyService::require_unlocked, on AuthService::is_unlocked_async
RequireUnlocked_None(unl) == TRUE
RequireUnlocked(unl) == unl

\* AuthService::get_vault_key: the held key, or Locked (<< >>)
GetVaultKey(vk) == vk

\* what a record operation leaves in last: its name, its result and, for
\* create and update, the value it was given
KeyLast(op, res, arg) ==
    [op |-> op, res |-> res, slept |-> 0, verified |-> FALSE, arg |-> arg]

Metadata(r) ==
    [id |-> r.id, app_name |-> r.app_name, key_name |-> r.key_name,
     api_url |-> r.api_url, description |-> r.description,
     created_at |-> r.created_at, updated_at |-> r.updated_at]

\* the row-to-ApiKey part of get and get_by_id: decrypt under the stored
\* app_name, key_name and key_salt
DecryptRow(r, master_key) ==
    LET pt == DecryptApiKey(r.encrypted_key_value, master_key,
                            AppStr(r.app_name), r.key_name, r.key_salt) IN
    IF pt = << >> THEN [res |-> "Decryption", out |-> << >>]
    ELSE [res |-> "Ok",
          out |-> << [id |-> r.id, app_name |-> r.app_name,
                      key_name |-> r.key_name, key_value |-> pt[1],
                      api_url |-> r.api_url, description |-> r.description,
                      created_at |-> r.created_at,
                      updated_at |-> r.updated_at] >>]

\* WHERE (app_name = ?1 OR (app_name IS NULL AND ?1 = '')) AND key_name = ?2
RowsByName(recs, app, key_name) ==
    {r \in recs : /\ \/ r.app_name = <<app>>
                     \/ (r.app_name = << >> /\ app = "")
                  /\ r.key_name = key_name}

\* WHERE id = ?1
RowsById_All(recs, id) == recs
RowsById(recs, id) == {r \in recs : r.id = id}

\* KeyService::get as a function of the state it reads
GetOutcome(app, key_name, unl, vk, recs) ==
    IF ~RequireUnlocked(unl) THEN [res |-> "Locked", out |-> << >>]
    ELSE IF GetVaultKey(vk) = << >> THEN [res |-> "Locked", out |-> << >>]
    ELSE LET rows == RowsByName(recs, app, key_name) IN
    IF rows = {} THEN [res |-> "NotFound", out |-> << >>]
    ELSE DecryptRow(CHOOSE r \in rows : TRUE, vk[1])

\* KeyService::get_by_id as a function of the state it reads
GetByIdOutcome(id, unl, vk, recs) ==
    IF ~RequireUnlocked(unl) THEN [res |-> "Locked", out |-> << >>]
    ELSE IF GetVaultKey(vk) = << >> THEN [res |-> "Locked", out |-> << >>]
    ELSE LET rows == RowsById(recs, id) IN
    IF rows = {} THEN [res |-> "NotFound", out |-> << >>]
    ELSE DecryptRow(CHOOSE r \in rows : TRUE, vk[1])

\* the UNIQUE(key_name) constraint of api_keys: a row of recs holds key_name
\* (the app_name plays no part)
KeyNameTaken_PerApp(recs, app_name, key_name) ==
    \E r \in recs : r.app_name = app_name /\ r.key_name = key_name
KeyNameTaken(recs, app_name, key_name) ==
    \E r \in recs : r.key_name = key_name

\* KeyService::create as a function of the state it reads, with salt the
\* generate_salt(), id the Uuid::new_v4() and now the Utc::now() it draws: the
\* result and the rows it leaves
CreateOutcome(app_name, key_name, key_value, api_url, description, salt, id, now, unl, vk, recs) ==
    IF ~RequireUnlocked(unl) \/ GetVaultKey(vk) = << >>
    THEN [res |-> "Locked", recs |-> recs]
    ELSE LET encrypted == EncryptApiKey(key_value, vk[1], AppStr(app_name),
                                        key_name, salt)
         IN
         IF KeyNameTaken(recs, app_name, key_name)
         THEN [res |-> "DuplicateKey", recs |-> recs]
         ELSE [res |-> "Ok",
               recs |-> recs \cup
                   {[id |-> id, app_name |-> app_name, key_name |-> key_name,
                     api_url |-> api_url, description |-> description,
                     encrypted_key_value |-> encrypted, key_salt |-> salt,
                     created_at |-> now, updated_at |-> now,
                     written |-> key_value]}]

\* KeyService::create
Create(app_name, key_name, key_value, api_url, description, salt, id, now) ==
    /\ Idle
    /\ LET o == CreateOutcome(app_name, key_name, key_value, api_url,
                              description, salt, id, now, is_unlocked,
                              vault_key, records)
       IN /\ records' = o.recs
          /\ last' = KeyLast("create", o.res,
                             IF o.res = "Ok" THEN <<key_value>> ELSE << >>)
    /\ UNCHANGED <<cfgTable, cfg, vault_key, is_unlocked, failed_attempts,
                   vaultPin, tasks>>
    /\ UNCHANGED <<initOk, manager, db>>

\* debug_assert!(!key_name.is_empty()) of derive_per_key_encryption_key: it
\* panics in a build with debug assertions and is compiled out of the others
DebugAssertFails(debug_assertions, key_name) ==
    debug_assertions /\ key_name = ""

\* KeyService::create, given no api_url and no description, in a build with
\* or without debug assertions
CreateBuilt(debug_assertions, app_name, key_name, key_value, salt, id, now) ==
    IF /\ RequireUnlocked(is_unlocked) /\ GetVaultKey(vault_key) # << >>
       /\ DebugAssertFails(debug_assertions, key_name)
    THEN /\ Idle
         /\ last' = KeyLast("create", "Panic", << >>)
         /\ UNCHANGED <<cfgTable, cfg, vault_key, is_unlocked, failed_attempts,
                        records, vaultPin, tasks, initOk, manager, db>>
    ELSE Create(app_name, key_name, key_value, << >>, << >>, salt, id, now)

\* KeyService::get
Get(app, key_name) ==
    /\ Idle
    /\ LET o == GetOutcome(app, key_name, is_unlocked, vault_key, records) IN
       last' = KeyLast("get", o.res, << >>)
    /\ UNCHANGED <<cfgTable, cfg, vault_key, is_unlocked, failed_attempts,
                   records, vaultPin, tasks>>
    /\ UNCHANGED <<initOk, manager, db>>

\* KeyService::get_by_id
GetById(id) ==
    /\ Idle
    /\ LET o == GetByIdOutcome(id, is_unlocked, vault_key, records) IN
       last' = KeyLast("get_by_id", o.res, << >>)
    /\ UNCHANGED <<cfgTable, cfg, vault_key, is_unlocked, failed_attempts,
                   records, vaultPin, tasks>>
    /\ UNCHANGED <<initOk, manager, db>>

\* KeyService::list as a function of the state it reads: the metadata of
\* every row
ListOutcome(unl, recs) ==
    IF ~RequireUnlocked(unl) THEN [res |-> "Locked", out |-> << >>]
    ELSE [res |-> "Ok", out |-> << {Metadata(r) : r \in recs} >>]

\* KeyService::list
List ==
    /\ Idle
    /\ last' = KeyLast("list", ListOutcome(is_unlocked, records).res, << >>)
    /\ UNCHANGED <<cfgTable, cfg, vault_key, is_unlocked, failed_attempts,
                   records, vaultPin, tasks>>
    /\ UNCHANGED <<initOk, manager, db>>

\* field LIKE '%query%' on the strings of the model, none of which is a
\* proper substring of another except the empty string; NULL never matches
Like(field, query) == field # << >> /\ (query = "" \/ field[1] = query)

Queries == {"", "a", "k1", "d", "zz"}

\* KeyService::search as a function of the state it reads
SearchOutcome(query, unl, recs) ==
    IF ~RequireUnlocked(unl) THEN [res |-> "Locked", out |-> << >>]
    ELSE [res |-> "Ok",
          out |-> << {Metadata(r) : r \in
                       {x \in recs : \/ Like(x.app_name, query)
                                     \/ Like(<<x.key_name>>, query)
                                     \/ Like(x.description, query)}} >>]

\* KeyService::search
Search(query) ==
    /\ Idle
    /\ last' = KeyLast("search", SearchOutcome(query, is_unlocked, records).res, << >>)
    /\ UNCHANGED <<cfgTable, cfg, vault_key, is_unlocked, failed_attempts,
                   records, vaultPin, tasks>>
    /\ UNCHANGED <<initOk, manager, db>>

\* KeyService::count as a function of the state it reads
CountOutcome(unl, recs) ==
    IF ~RequireUnlocked(unl) THEN [res |-> "Locked", out |-> << >>]
    ELSE [res |-> "Ok", out |-> << Cardinality(recs) >>]

\* KeyService::count
Count ==
    /\ Idle
    /\ last' = KeyLast("count", CountOutcome(is_unlocked, records).res, << >>)
    /\ UNCHANGED <<cfgTable, cfg, vault_key, is_unlocked, failed_attempts,
                   records, vaultPin, tasks>>
    /\ UNCHANGED <<initOk, manager, db>>

\* UpdateKeyRequest: each field << >> to keep the stored value. The requests
\* exercised set the description on its own (the metadata-only path) or
\* any of the names and the value.
UpdateRequests ==
    {request \in [app_name : {<< >>} \cup {<<a>> : a \in AppNames},
                  key_name : {<< >>} \cup {<<k>> : k \in KeyNames},
                  key_value : {<< >>} \cup {<<v>> : v \in Values},
                  api_url : {<< >>},
                  description : {<< >>} \cup {<<d>> : d \in Descriptions}] :
        request.description = << >>
            \/ (request.app_name = << >> /\ request.key_name = << >>
                   /\ request.key_value = << >>)}

\* update's decision to re-encrypt
NeedsReencrypt_Always(request, app_changed, key_changed) == TRUE
NeedsReencrypt_ValueOnly(request, app_changed, key_changed) ==
    request.key_value # << >>
NeedsReencrypt(request, app_changed, key_changed) ==
    request.key_value # << >> \/ app_changed \/ key_changed

\* the part of KeyService::update after get_by_id returned existing: the
\* new fields, the re-encryption and the one UPDATE ... WHERE id = ?, run on
\* the rows as they are then; an UPDATE that matches no row is not an error
UpdateStatement(existing, id, request, salt, now, vk, recs) ==
    LET rows == RowsById(recs, id)
        new_app_name == IF request.app_name = << >> THEN existing.app_name
                        ELSE request.app_name[1]
        new_key_name == IF request.key_name = << >> THEN existing.key_name
                        ELSE request.key_name[1]
        new_api_url == IF request.api_url = << >> THEN existing.api_url
                       ELSE request.api_url[1]
        new_description == IF request.description = << >>
                           THEN existing.description
                           ELSE request.description[1]
        app_changed == new_app_name # existing.app_name
        key_changed == new_key_name # existing.key_name
        value_to_encrypt == IF request.key_value # << >>
                            THEN request.key_value[1]
                            ELSE existing.key_value
        \* UNIQUE(key_name) on the UPDATE statement
        conflict == rows # {} /\ KeyNameTaken(recs \ rows, new_app_name,
                                              new_key_name)
    IN
    IF NeedsReencrypt(request, app_changed, key_changed) THEN
        IF GetVaultKey(vk) = << >> THEN [res |-> "Locked", recs |-> recs]
        ELSE IF conflict THEN [res |-> "Database", recs |-> recs]
        ELSE [res |-> "Ok",
              recs |-> (recs \ rows) \cup
                  {[id |-> id, app_name |-> new_app_name,
                    key_name |-> new_key_name,
                    api_url |-> new_api_url,
                    description |-> new_description,
                    encrypted_key_value |->
                        EncryptApiKey(value_to_encrypt, vk[1],
                                      AppStr(new_app_name),
                                      new_key_name, salt),
                    key_salt |-> salt,
                    created_at |-> old.created_at, updated_at |-> now,
                    written |-> IF request.key_value # << >>
                                THEN request.key_value[1]
                                ELSE old.written] : old \in rows}]
    ELSE IF conflict THEN [res |-> "Database", recs |-> recs]
    ELSE [res |-> "Ok",
          recs |-> (recs \ rows) \cup
              {[old EXCEPT !.app_name = new_app_name,
                           !.key_name = new_key_name,
                           !.api_url = new_api_url,
                           !.description = new_description,
                           !.updated_at = now] : old \in rows}]

\* KeyService::update as a function of the state it reads, with salt the
\* generate_salt() a re-encryption draws and now the Utc::now(): the result
\* and the rows it leaves
UpdateOutcome(id, request, salt, now, unl, vk, recs) ==
    IF ~RequireUnlocked(unl) THEN [res |-> "Locked", recs |-> recs]
    ELSE LET e == GetByIdOutcome(id, unl, vk, recs) IN
    IF e.res # "Ok" THEN [res |-> e.res, recs |-> recs]
    ELSE UpdateStatement(e.out[1], id, request, salt, now, vk, recs)

\* KeyService::update
Update(id, request, salt, now) ==
    /\ Idle
    /\ LET o == UpdateOutcome(id, request, salt, now, is_unlocked, vault_key,
                              records)
       IN /\ records' = o.recs
          /\ last' = KeyLast("update", o.res,
                             IF o.res = "Ok" THEN request.key_value ELSE << >>)
    /\ UNCHANGED <<cfgTable, cfg, vault_key, is_unlocked, failed_attempts,
                   vaultPin, tasks>>
    /\ UNCHANGED <<initOk, manager, db>>

\* KeyService::delete as a function of the state it reads: the result and
\* the rows it leaves
DeleteOutcome(id, unl, recs) ==
    IF ~RequireUnlocked(unl) THEN [res |-> "Locked", out |-> << >>, recs |-> recs]
    ELSE LET rows == RowsById(recs, id) IN
    IF rows = {} THEN [res |-> "NotFound", out |-> << >>, recs |-> recs]
    ELSE [res |-> "Ok", out |-> << Metadata(CHOOSE r \in rows : TRUE) >>,
          recs |-> recs \ rows]

\* KeyService::delete
Delete(id) ==
    /\ Idle
    /\ LET o == DeleteOutcome(id, is_unlocked, records) IN
       /\ records' = o.recs
       /\ last' = KeyLast("delete", o.res, << >>)
    /\ UNCHANGED <<cfgTable, cfg, vault_key, is_unlocked, failed_attempts,
                   vaultPin, tasks>>
    /\ UNCHANGED <<initOk, manager, db>>

\* KeyService::delete_by_name: require_unlocked, get, then delete
DeleteByName(app, key_name) ==
    /\ Idle
    /\ IF ~RequireUnlocked(is_unlocked) THEN
           /\ last' = KeyLast("delete_by_name", "Locked", << >>)
           /\ UNCHANGED records
       ELSE LET g == GetOutcome(app, key_name, is_unlocked, vault_key, records) IN
       IF g.res # "Ok" THEN
           /\ last' = KeyLast("delete_by_name", g.res, << >>)
           /\ UNCHANGED records
       ELSE LET o == DeleteOutcome(g.out[1].id, is_unlocked, records) IN
           /\ records' = o.recs
           /\ last' = KeyLast("delete_by_name", o.res, << >>)
    /\ UNCHANGED <<cfgTable, cfg, vault_key, is_unlocked, failed_attempts,
                   vaultPin, tasks>>
    /\ UNCHANGED <<initOk, manager, db>>

\* --------------------------------------- AuthService calls, step by step
\* Each action below is the part of a call between two of its .await
\* points; calls of different tasks interleave at these points.

\* a call starts
Begin(t, op, pc, pin, new_pin, salt) ==
    /\ tasks[t].pc = "idle"
    /\ tasks' = [tasks EXCEPT ![t] = [op |-> op, pc |-> pc, pin |-> <<pin>>,
                                      new_pin |-> new_pin, salt |-> salt,
                                      key |-> << >>, slept |-> 0,
                                      call |-> << >>]]

\* a call returns res
Return(t, res, verified) ==
    /\ tasks' = [tasks EXCEPT ![t] = IdleTask]
    /\ last' = [op |-> tasks[t].op, res |-> res, slept |-> tasks[t].slept,
                verified |-> verified, arg |-> tasks[t].pin]

\* unlock is called (directly, or by change_pin once the new PIN passed)
StartUnlock(t, pin) ==
    /\ Begin(t, "unlock", "u_limit", pin, << >>, << >>)
    /\ UNCHANGED <<cfgTable, cfg, vault_key, is_unlocked, failed_attempts,
                   records, vaultPin, last>>
    /\ UNCHANGED <<initOk, manager, db>>

\* unlock: read failed_attempts, return TooManyAttempts or sleep the backoff
UnlockLimit(t) ==
    /\ tasks[t].pc = "u_limit"
    /\ IF RateLimited(failed_attempts)
       THEN Return(t, "TooManyAttempts", FALSE)
       ELSE /\ tasks' = [tasks EXCEPT ![t].pc = "u_verify",
                                      ![t].slept = Backoff(failed_attempts)]
            /\ UNCHANGED last
    /\ UNCHANGED <<cfgTable, cfg, vault_key, is_unlocked, failed_attempts,
                   records, vaultPin>>
    /\ UNCHANGED <<initOk, manager, db>>

\* unlock: read the vault_config row, derive the key, compare the byte
UnlockVerify(t) ==
    /\ tasks[t].pc = "u_verify"
    /\ IF ~cfgTable THEN Return(t, "Database", FALSE)
       ELSE IF cfg = << >> THEN Return(t, "NotInitialized", FALSE)
       ELSE LET derived == DeriveKeyFromPin(tasks[t].pin[1], cfg[1].salt) IN
       IF derived = << >> THEN Return(t, "KeyDerivation", FALSE)
       ELSE /\ tasks' = [tasks EXCEPT
                 ![t].pc = IF FirstByte(derived[1]) # ExpectedByte(cfg[1].pin_hash)
                           THEN "u_fail" ELSE "u_reset",
                 ![t].key = derived]
            /\ UNCHANGED last
    /\ UNCHANGED <<cfgTable, cfg, vault_key, is_unlocked, failed_attempts,
                   records, vaultPin>>
    /\ UNCHANGED <<initOk, manager, db>>

\* unlock: *failed_attempts.write().await += 1; InvalidPin
UnlockFail(t) ==
    /\ tasks[t].pc = "u_fail"
    /\ failed_attempts' = failed_attempts + 1
    /\ Return(t, "InvalidPin", TRUE)
    /\ UNCHANGED <<cfgTable, cfg, vault_key, is_unlocked, records, vaultPin>>
    /\ UNCHANGED <<initOk, manager, db>>

\* unlock: *failed_attempts.write().await = 0
UnlockReset(t) ==
    /\ tasks[t].pc = "u_reset"
    /\ failed_attempts' = AttemptsAfterSuccess(failed_attempts)
    /\ tasks' = [tasks EXCEPT ![t].pc = "u_key"]
    /\ UNCHANGED <<cfgTable, cfg, vault_key, is_unlocked, records, vaultPin, last>>
    /\ UNCHANGED <<initOk, manager, db>>

\* unlock: *vault_key.write().await = Some(vault_key)
UnlockSetKey(t) ==
    /\ tasks[t].pc = "u_key"
    /\ vault_key' = tasks[t].key
    /\ tasks' = [tasks EXCEPT ![t].pc = "u_flag"]
    /\ UNCHANGED <<cfgTable, cfg, is_unlocked, failed_attempts, records,
                   vaultPin, last>>
    /\ UNCHANGED <<initOk, manager, db>>

\* unlock: *is_unlocked.write().await = true; Ok, or on to change_pin's part
UnlockSetFlag(t) ==
    /\ tasks[t].pc = "u_flag"
    /\ is_unlocked' = TRUE
    /\ IF tasks[t].op = "change_pin"
       THEN /\ tasks' = [tasks EXCEPT ![t].pc = "c_update"]
            /\ UNCHANGED last
       ELSE Return(t, "Ok", TRUE)
    /\ UNCHANGED <<cfgTable, cfg, vault_key, failed_attempts, records, vaultPin>>
    /\ UNCHANGED <<initOk, manager, db>>

\* lock is called
StartLock(t) ==
    /\ Begin(t, "lock", "l_key", << >>, << >>, << >>)
    /\ UNCHANGED <<cfgTable, cfg, vault_key, is_unlocked, failed_attempts,
                   records, vaultPin, last>>
    /\ UNCHANGED <<initOk, manager, db>>

\* lock: *vault_key.write().await = None
LockClearKey(t) ==
    /\ tasks[t].pc = "l_key"
    /\ vault_key' = << >>
    /\ tasks' = [tasks EXCEPT ![t].pc = "l_flag"]
    /\ UNCHANGED <<cfgTable, cfg, is_unlocked, failed_attempts, records,
                   vaultPin, last>>
    /\ UNCHANGED <<initOk, manager, db>>

\* lock: *is_unlocked.write().await = false; Ok
LockClearFlag(t) ==
    /\ tasks[t].pc = "l_flag"
    /\ is_unlocked' = FALSE
    /\ Return(t, "Ok", FALSE)
    /\ UNCHANGED <<cfgTable, cfg, vault_key, failed_attempts, records, vaultPin>>
    /\ UNCHANGED <<initOk, manager, db>>

\* init_vault is called: validate_pin, then is_initialized
StartInitVault(t, pin, salt) ==
    /\ Begin(t, "init_vault", "i_check", pin, << >>, <<salt>>)
    /\ UNCHANGED <<cfgTable, cfg, vault_key, is_unlocked, failed_attempts,
                   records, vaultPin, last>>
    /\ UNCHANGED <<initOk, manager, db>>

\* init_vault: validate_pin, the is_initialized query, the key derivation
InitCheck(t) ==
    /\ tasks[t].pc = "i_check"
    /\ LET v == ValidatePin(tasks[t].pin[1]) IN
       IF v # "Ok" THEN Return(t, v, FALSE)
       ELSE IF IsInitialized THEN Return(t, "AlreadyInitialized", FALSE)
       ELSE /\ tasks' = [tasks EXCEPT
                 ![t].pc = "i_create",
                 ![t].key = DeriveKeyFromPin(tasks[t].pin[1], tasks[t].salt[1])]
            /\ UNCHANGED last
    /\ UNCHANGED <<cfgTable, cfg, vault_key, is_unlocked, failed_attempts,
                   records, vaultPin>>
    /\ UNCHANGED <<initOk, manager, db>>

\* init_vault: CREATE TABLE IF NOT EXISTS vault_config
InitCreateTable(t) ==
    /\ tasks[t].pc = "i_create"
    /\ cfgTable' = TRUE
    /\ tasks' = [tasks EXCEPT ![t].pc = "i_insert"]
    /\ UNCHANGED <<cfg, vault_key, is_unlocked, failed_attempts, records,
                   vaultPin, last>>
    /\ UNCHANGED <<initOk, manager, db>>

\* init_vault: INSERT INTO vault_config (id, ...) VALUES (1, ...); a second
\* row with id 1 violates the primary key
InitInsert(t) ==
    /\ tasks[t].pc = "i_insert"
    /\ IF cfg # << >>
       THEN /\ Return(t, "Database", FALSE)
            /\ UNCHANGED <<cfg, vaultPin>>
       ELSE /\ cfg' = << [salt |-> tasks[t].salt[1],
                          pin_hash |-> FormatPinHash(tasks[t].salt[1],
                                                     tasks[t].key[1])] >>
            /\ vaultPin' = tasks[t].pin
            /\ tasks' = [tasks EXCEPT ![t].pc = "i_key"]
            /\ UNCHANGED last
    /\ UNCHANGED <<cfgTable, vault_key, is_unlocked, failed_attempts, records>>
    /\ UNCHANGED <<initOk, manager, db>>

\* init_vault: *vault_key.write().await = Some(vault_key)
InitSetKey(t) ==
    /\ tasks[t].pc = "i_key"
    /\ vault_key' = tasks[t].key
    /\ tasks' = [tasks EXCEPT ![t].pc = "i_flag"]
    /\ UNCHANGED <<cfgTable, cfg, is_unlocked, failed_attempts, records,
                   vaultPin, last>>
    /\ UNCHANGED <<initOk, manager, db>>

\* init_vault: *is_unlocked.write().await = true; Ok
InitSetFlag(t) ==
    /\ tasks[t].pc = "i_flag"
    /\ is_unlocked' = TRUE
    /\ Return(t, "Ok", FALSE)
    /\ initOk' = initOk + 1
    /\ UNCHANGED <<cfgTable, cfg, vault_key, failed_attempts, records, vaultPin,
                   manager, db>>

\* change_pin is called: the new PIN's length, then unlock(old_pin)
StartChangePin(t, old_pin, new_pin, salt) ==
    /\ tasks[t].pc = "idle"
    /\ IF new_pin.len < MIN_PIN_LENGTH THEN
           /\ last' = [NoLast EXCEPT !.op = "change_pin", !.res = "PinTooShort",
                                     !.arg = <<old_pin>>]
           /\ UNCHANGED tasks
       ELSE IF new_pin.len > MAX_PIN_LENGTH THEN
           /\ last' = [NoLast EXCEPT !.op = "change_pin", !.res = "PinTooLong",
                                     !.arg = <<old_pin>>]
           /\ UNCHANGED tasks
       ELSE
           /\ Begin(t, "change_pin", "u_limit", old_pin, <<new_pin>>, <<salt>>)
           /\ UNCHANGED last
    /\ UNCHANGED <<cfgTable, cfg, vault_key, is_unlocked, failed_attempts,
                   records, vaultPin>>
    /\ UNCHANGED <<initOk, manager, db>>

\* change_pin: derive the new key; UPDATE vault_config SET salt, pin_hash
\* WHERE id = 1
ChangeUpdate(t) ==
    /\ tasks[t].pc = "c_update"
    /\ LET key == DeriveKeyFromPin(tasks[t].new_pin[1], tasks[t].salt[1]) IN
       /\ IF cfg = << >> THEN UNCHANGED <<cfg, vaultPin>>
          ELSE /\ cfg' = << [salt |-> tasks[t].salt[1],
                             pin_hash |-> FormatPinHash(tasks[t].salt[1], key[1])] >>
               /\ vaultPin' = tasks[t].new_pin
       /\ tasks' = [tasks EXCEPT ![t].pc = "c_key", ![t].key = key]
    /\ UNCHANGED <<cfgTable, vault_key, is_unlocked, failed_attempts, records, last>>
    /\ UNCHANGED <<initOk, manager, db>>

\* change_pin: *vault_key.write().await = Some(new_vault_key); Ok
ChangeSetKey(t) ==
    /\ tasks[t].pc = "c_key"
    /\ vault_key' = tasks[t].key
    /\ Return(t, "Ok", TRUE)
    /\ UNCHANGED <<cfgTable, cfg, is_unlocked, failed_attempts, records, vaultPin>>
    /\ UNCHANGED <<initOk, manager, db>>

\* ------------------------------------------------- AuthManager, the calls
\* everything but the AuthManager
NotManager ==
    <<cfgTable, cfg, vault_key, is_unlocked, failed_attempts, records,
      vaultPin, tasks, initOk, db>>

\* AuthManager::update_state_unlocked
UpdateStateUnlocked(m) ==
    [m EXCEPT !.is_unlocked = TRUE, !.last_activity_secs = 0, !.ticks = 0]

\* AuthManager::initialize, with salt the generate_salt() it draws
ManagerInitialize(pin, salt) ==
    /\ IF pin.len < MIN_PIN_LENGTH THEN
           /\ last' = KeyLast("initialize", "PinTooShort", <<pin>>)
           /\ UNCHANGED <<cfgTable, cfg, manager>>
       ELSE IF pin.len > MAX_PIN_LENGTH THEN
           /\ last' = KeyLast("initialize", "InvalidPin", <<pin>>)
           /\ UNCHANGED <<cfgTable, cfg, manager>>
       ELSE IF IsInitialized THEN
           /\ last' = KeyLast("initialize", "AlreadyInitialized", <<pin>>)
           /\ UNCHANGED <<cfgTable, cfg, manager>>
       ELSE LET derived == DeriveKeyFromPin(pin, salt) IN
       IF derived = << >> THEN
           /\ last' = KeyLast("initialize", "Crypto", <<pin>>)
           /\ UNCHANGED <<cfgTable, cfg, manager>>
       ELSE
           /\ cfgTable' = TRUE
           /\ cfg' = << [salt |-> salt,
                         pin_hash |-> FormatPinHash(salt, derived[1])] >>
           /\ manager' = UpdateStateUnlocked([manager EXCEPT
                                                 !.vault_key = derived])
           /\ last' = KeyLast("initialize", "Ok", <<pin>>)
    /\ UNCHANGED <<vault_key, is_unlocked, failed_attempts, records, vaultPin,
                   tasks, initOk, db>>

\* AuthManager::unlock
ManagerUnlock(pin) ==
    /\ IF ~cfgTable THEN
           /\ last' = KeyLast("unlock", "Database", <<pin>>)
           /\ UNCHANGED manager
       ELSE IF cfg = << >> THEN
           /\ last' = KeyLast("unlock", "NotInitialized", <<pin>>)
           /\ UNCHANGED manager
       ELSE LET derived == DeriveKeyFromPin(pin, cfg[1].salt) IN
       IF derived = << >> THEN
           /\ last' = KeyLast("unlock", "Crypto", <<pin>>)
           /\ UNCHANGED manager
       ELSE IF FirstByte(derived[1]) # ExpectedByte(cfg[1].pin_hash) THEN
           /\ manager' = [manager EXCEPT !.failed_attempts = @ + 1]
           /\ last' = KeyLast("unlock", "InvalidPin", <<pin>>)
       ELSE
           /\ manager' = UpdateStateUnlocked([manager EXCEPT
                                                 !.failed_attempts = 0,
                                                 !.vault_key = derived])
           /\ last' = KeyLast("unlock", "Ok", <<pin>>)
    /\ UNCHANGED NotManager

\* AuthManager::lock
ManagerLock ==
    /\ manager' = [manager EXCEPT !.vault_key = << >>, !.is_unlocked = FALSE,
                                  !.last_activity_secs = 0]
    /\ last' = KeyLast("lock", "Ok", << >>)
    /\ UNCHANGED NotManager

\* AuthManager::update_activity
UpdateActivity ==
    /\ manager' = [manager EXCEPT !.last_activity_secs = 0, !.ticks = 0]
    /\ last' = KeyLast("update_activity", "Ok", << >>)
    /\ UNCHANGED NotManager

\* Duration::from_secs(last_activity_secs as u64) >= duration: the cast
\* takes a negative i64 to 2^64 + last_activity_secs seconds, above every
\* timeout the model is built with
ElapsedAtLeast(last_activity_secs, secs) ==
    last_activity_secs < 0 \/ last_activity_secs >= secs

\* AuthManager::should_auto_lock as a function of the session state
ShouldAutoLock_After(unl, last_activity_secs) ==
    unl /\ ElapsedAtLeast(last_activity_secs, AutoLockSecs + 1)
ShouldAutoLock(unl, last_activity_secs) ==
    IF ~unl THEN FALSE
    ELSE ElapsedAtLeast(last_activity_secs, AutoLockSecs)

\* AuthManager::should_auto_lock, called through commands::check_auto_lock
CheckAutoLock ==
    /\ last' = KeyLast("should_auto_lock", "Ok",
                       << ShouldAutoLock(manager.is_unlocked,
                                         manager.last_activity_secs) >>)
    /\ UNCHANGED manager
    /\ UNCHANGED NotManager

\* ---------------------------------------- AuthManager, the background tasks
\* s.is_unlocked && s.last_activity_secs < i64::MAX of the counter task;
\* the model stops the counter one past the timeout
CounterTicks_Locked(m) == m.last_activity_secs < AutoLockSecs + 1
CounterTicks(m) == m.is_unlocked /\ m.last_activity_secs < AutoLockSecs + 1

\* the task of start_activity_counter, once a second
Tick ==
    /\ CounterTicks(manager)
    /\ manager' = [manager EXCEPT !.last_activity_secs = @ + 1,
                                  !.ticks = @ + 1]
    /\ UNCHANGED last
    /\ UNCHANGED NotManager

\* the auto-lock checker: should_auto_lock() was true at its tick
CheckerPoll ==
    /\ manager.checker = "poll"
    /\ ShouldAutoLock(manager.is_unlocked, manager.last_activity_secs)
    /\ manager' = [manager EXCEPT !.checker = "l_key"]
    /\ UNCHANGED last
    /\ UNCHANGED NotManager

\* the checker's lock_with_event: *self.vault_key.write().await = None
CheckerClearKey ==
    /\ manager.checker = "l_key"
    /\ manager' = [manager EXCEPT !.vault_key = << >>, !.checker = "l_flag"]
    /\ UNCHANGED last
    /\ UNCHANGED NotManager

\* the checker's lock_with_event: the write of session_state, then the event
CheckerClearFlag ==
    /\ manager.checker = "l_flag"
    /\ manager' = [manager EXCEPT !.is_unlocked = FALSE,
                                  !.last_activity_secs = 0,
                                  !.checker = "poll"]
    /\ UNCHANGED last
    /\ UNCHANGED NotManager

\* ------------------------------------------- VaultDb, the calls by steps
\* Each action is one SQL statement of VaultDb::new or reencrypt_all_keys;
\* the process can stop between any two of them.

\* everything but the database file
NotDb ==
    <<cfgTable, cfg, vault_key, is_unlocked, failed_attempts, records,
      vaultPin, last, tasks, initOk, manager>>

\* SELECT version FROM schema_version ORDER BY version DESC LIMIT 1, and 1
\* when there is no row
StoredVersion_Default(d) == 1
StoredVersion(d) ==
    IF d.schema_version = << >> \/ d.schema_version[1] = {} THEN 1
    ELSE CHOOSE v \in d.schema_version[1] :
             \A w \in d.schema_version[1] : w <= v

\* the call returns an error
DbFail(res) ==
    db' = [db EXCEPT !.pc = "closed", !.rows = {}, !.res = res]

\* VaultDb::new: SqlitePool::connect
Open ==
    /\ db.pc = "closed"
    /\ db' = [db EXCEPT !.pc = "init_version", !.res = "none"]
    /\ UNCHANGED NotDb

\* init_schema: CREATE TABLE IF NOT EXISTS schema_version
InitSchemaVersion ==
    /\ db.pc = "init_version"
    /\ db' = [db EXCEPT !.schema_version = IF @ = << >> THEN << {} >> ELSE @,
                        !.pc = "init_keys"]
    /\ UNCHANGED NotDb

\* init_schema: CREATE TABLE IF NOT EXISTS api_keys, in the current schema
InitSchemaKeys ==
    /\ db.pc = "init_keys"
    /\ db' = [db EXCEPT !.api_keys =
                            IF @ = << >>
                            THEN << [has_key_salt |-> TRUE, rows |-> {}] >>
                            ELSE @,
                        !.pc = "migrate"]
    /\ UNCHANGED NotDb

\* migrate, up to the first statement that writes: the version check, the
\* backup (which writes nothing) and run_migration's look at api_keys
MigrateCheck_Never(current_version) == FALSE
MigrateCheck(current_version) == current_version > SCHEMA_VERSION

Migrate ==
    /\ db.pc = "migrate"
    /\ LET current_version == StoredVersion(db) IN
       IF MigrateCheck(current_version) THEN DbFail("IncompatibleVersion")
       ELSE IF current_version < SCHEMA_VERSION THEN
           IF current_version = 1 THEN
               IF db.api_keys # << >> /\ ~db.api_keys[1].has_key_salt
               THEN db' = [db EXCEPT !.pc = "v2_create"]
               ELSE db' = [db EXCEPT !.pc = "version"]
           ELSE db' = [db EXCEPT !.pc = "cleanup"]
       ELSE db' = [db EXCEPT !.pc = "cleanup"]
    /\ UNCHANGED NotDb

\* migrate_v1_to_v2: CREATE TABLE api_keys_v2
MigrateCreate ==
    /\ db.pc = "v2_create"
    /\ IF db.api_keys_v2 # << >> THEN DbFail("Database")
       ELSE db' = [db EXCEPT !.api_keys_v2 = << {} >>, !.pc = "v2_select"]
    /\ UNCHANGED NotDb

\* migrate_v1_to_v2: SELECT ... FROM api_keys
MigrateSelect ==
    /\ db.pc = "v2_select"
    /\ db' = [db EXCEPT !.rows = db.api_keys[1].rows, !.pc = "v2_copy"]
    /\ UNCHANGED NotDb

\* the row of api_keys_v2 for a version-1 row: its fields and ciphertext
\* with the fresh key_salt
MigratedRow(r, key_salt) ==
    [id |-> r.id, app_name |-> r.app_name, key_name |-> r.key_name,
     api_url |-> r.api_url, description |-> r.description,
     encrypted_key_value |-> r.encrypted_key_value, key_salt |-> key_salt,
     created_at |-> r.created_at, updated_at |-> r.updated_at,
     written |-> r.written]

\* migrate_v1_to_v2: one turn of the loop, with key_salt the generate_salt()
\* it draws: INSERT INTO api_keys_v2 under UNIQUE(key_name)
MigrateCopy(key_salt) ==
    /\ db.pc = "v2_copy"
    /\ \E r \in db.rows :
          IF KeyNameTaken(db.api_keys_v2[1], r.app_name, r.key_name)
          THEN DbFail("Database")
          ELSE db' = [db EXCEPT !.api_keys_v2 =
                                    << @[1] \cup {MigratedRow(r, key_salt)} >>,
                                !.rows = @ \ {r}]
    /\ UNCHANGED NotDb

\* migrate_v1_to_v2: DROP TABLE api_keys
MigrateDrop ==
    /\ db.pc = "v2_copy"
    /\ db.rows = {}
    /\ db' = [db EXCEPT !.api_keys = << >>, !.pc = "v2_rename"]
    /\ UNCHANGED NotDb

\* migrate_v1_to_v2: ALTER TABLE api_keys_v2 RENAME TO api_keys
MigrateRename ==
    /\ db.pc = "v2_rename"
    /\ db' = [db EXCEPT !.api_keys = << [has_key_salt |-> TRUE,
                                         rows |-> db.api_keys_v2[1]] >>,
                        !.api_keys_v2 = << >>,
                        !.pc = "version"]
    /\ UNCHANGED NotDb

\* run_migration: INSERT INTO schema_version
RecordVersion ==
    /\ db.pc = "version"
    /\ db' = [db EXCEPT !.schema_version = << @[1] \cup {SCHEMA_VERSION} >>,
                        !.pc = "cleanup"]
    /\ UNCHANGED NotDb

\* cleanup_orphaned_tables: DROP TABLE IF EXISTS api_keys_v2; new returns
Cleanup ==
    /\ db.pc = "cleanup"
    /\ db' = [db EXCEPT !.api_keys_v2 = << >>, !.pc = "open", !.res = "Ok"]
    /\ UNCHANGED NotDb

\* the positions of migrate_v1_to_v2 after its first write and of
\* run_migration before its last
MigrationPcs == {"v2_select", "v2_copy", "v2_rename", "version"}

\* the process stops
Stop ==
    /\ db.pc # "closed"
    /\ db' = [db EXCEPT !.pc = "closed", !.rows = {}, !.res = "stopped",
                        !.interrupted = @ \/ db.pc \in MigrationPcs]
    /\ UNCHANGED NotDb

\* key_salt.len() == 32 && key_salt.iter().all(|&b| b == 0)
IsDefaultSalt_Any(key_salt) == TRUE
IsDefaultSalt(key_salt) == key_salt = DEFAULT_SALT

\* reencrypt_all_keys: SELECT ... FROM api_keys
ReencryptSelect ==
    /\ db.pc = "open"
    /\ db' = [db EXCEPT !.pc = "reencrypt", !.rows = db.api_keys[1].rows,
                        !.base = db.api_keys[1].rows, !.reencrypted = 0,
                        !.res = "none", !.rerun = db.complete]
    /\ UNCHANGED NotDb

\* UPDATE api_keys SET encrypted_key_value, nonce, key_salt WHERE id = ?4
ReencryptedRows(rows, id, encrypted, key_salt) ==
    {IF r.id = id
     THEN [r EXCEPT !.encrypted_key_value = encrypted, !.key_salt = key_salt]
     ELSE r : r \in rows}

\* reencrypt_all_keys: one turn of the loop, with key_salt the
\* generate_salt() it draws for a row that has the default salt
ReencryptRow(master_key, key_salt) ==
    /\ db.pc = "reencrypt"
    /\ \E r \in db.rows :
          IF IsDefaultSalt(r.key_salt) THEN
              LET key_value == Decrypt(r.encrypted_key_value, master_key) IN
              IF key_value = << >>
              THEN db' = [db EXCEPT !.pc = "open", !.rows = {}, !.res = "Crypto"]
              ELSE db' = [db EXCEPT
                            !.api_keys[1].rows =
                                ReencryptedRows(@, r.id,
                                    EncryptApiKey(key_value[1], master_key,
                                                  AppStr(r.app_name),
                                                  r.key_name, key_salt),
                                    key_salt),
                            !.rows = @ \ {r},
                            !.reencrypted = @ + 1]
          ELSE db' = [db EXCEPT !.rows = @ \ {r}]
    /\ UNCHANGED NotDb

\* reencrypt_all_keys: Ok(reencrypted)
ReencryptReturn ==
    /\ db.pc = "reencrypt"
    /\ db.rows = {}
    /\ db' = [db EXCEPT !.pc = "open", !.res = "Ok", !.complete = TRUE]
    /\ UNCHANGED NotDb

\* VaultDb::get_api_key on the file d: the row WHERE id = ?1, decrypted
GetApiKey(id, master_key, d) ==
    IF d.api_keys = << >> \/ ~d.api_keys[1].has_key_salt
    THEN [res |-> "Database", out |-> << >>]
    ELSE LET rows == RowsById(d.api_keys[1].rows, id) IN
    IF rows = {} THEN [res |-> "NotFound", out |-> << >>]
    ELSE DecryptRow(CHOOSE r \in rows : TRUE, master_key)

\* ---------------------------------------- KeyService calls, step by step
\* update and delete each read the row in one statement and write it in
\* another, with an .await between the two; a finished call stays in the
\* task's call field, with base the rows the call started from.

\* a record call of task t returns res
KeyReturn(t, c, res) ==
    /\ tasks' = [tasks EXCEPT ![t] = [IdleTask EXCEPT
                                         !.call = << [c EXCEPT !.res = res] >>]]
    /\ last' = KeyLast(c.op, res,
                       IF c.op = "update" /\ res = "Ok"
                       THEN c.request.key_value ELSE << >>)

\* what a call keeps between its statements
KeyCall(op, id, request) ==
    [op |-> op, id |-> id, request |-> request, base |-> records,
     existing |-> << >>, res |-> "pending"]

\* update: require_unlocked and get_by_id
UpdateRead(t, id, request) ==
    /\ tasks[t].pc = "idle"
    /\ LET c == KeyCall("update", id, request)
           e == GetByIdOutcome(id, is_unlocked, vault_key, records)
       IN IF ~RequireUnlocked(is_unlocked) THEN KeyReturn(t, c, "Locked")
          ELSE IF e.res # "Ok" THEN KeyReturn(t, c, e.res)
          ELSE /\ tasks' = [tasks EXCEPT ![t].op = "update",
                                         ![t].pc = "k_update",
                                         ![t].call =
                                             << [c EXCEPT !.existing = e.out] >>]
               /\ UNCHANGED last
    /\ UNCHANGED <<cfgTable, cfg, vault_key, is_unlocked, failed_attempts,
                   records, vaultPin, initOk, manager, db>>

\* update: the encryption and the UPDATE statement
UpdateWrite(t, salt, now) ==
    /\ tasks[t].pc = "k_update"
    /\ LET c == tasks[t].call[1]
           o == UpdateStatement(c.existing[1], c.id, c.request, salt, now,
                                vault_key, records)
       IN /\ records' = o.recs
          /\ KeyReturn(t, c, o.res)
    /\ UNCHANGED <<cfgTable, cfg, vault_key, is_unlocked, failed_attempts,
                   vaultPin, initOk, manager, db>>

\* delete: require_unlocked and the SELECT of the metadata
DeleteRead(t, id) ==
    /\ tasks[t].pc = "idle"
    /\ LET c == KeyCall("delete", id, << >>) IN
       IF ~RequireUnlocked(is_unlocked) THEN KeyReturn(t, c, "Locked")
       ELSE IF RowsById(records, id) = {} THEN KeyReturn(t, c, "NotFound")
       ELSE /\ tasks' = [tasks EXCEPT ![t].op = "delete",
                                      ![t].pc = "k_delete",
                                      ![t].call = << c >>]
            /\ UNCHANGED last
    /\ UNCHANGED <<cfgTable, cfg, vault_key, is_unlocked, failed_attempts,
                   records, vaultPin, initOk, manager, db>>

\* delete: the DELETE statement, whose row count is not looked at
DeleteWrite(t) ==
    /\ tasks[t].pc = "k_delete"
    /\ LET c == tasks[t].call[1] IN
       /\ records' = records \ RowsById(records, c.id)
       /\ KeyReturn(t, c, "Ok")
    /\ UNCHANGED <<cfgTable, cfg, vault_key, is_unlocked, failed_attempts,
                   vaultPin, initOk, manager, db>>

\* ------------------------------------------------- sequential use of the API
NextAuth ==
    \/ \E pin \in Pins, salt \in Salts : InitVault(pin, salt)
    \/ \E pin \in Pins : Unlock(pin)
    \/ Lock
    \/ \E old \in Pins, new \in Pins, salt \in Salts : ChangePin(old, new, salt)
    \/ ResetFailedAttempts

SpecAuth == Init /\ [][NextAuth]_vars

\* the PIN the record operations are exercised under
KeyPins == {[id |-> 1, len |-> MIN_PIN_LENGTH, ascii |-> TRUE]}
GetApps == {"", "a"}
\* the vault salt the record operations are exercised under
KeySpecSalt == CHOOSE s \in Salts : TRUE
\* the master key of the vault the stored files belong to
DbMasterKey == DeriveKeyFromPin(CHOOSE pin \in KeyPins : TRUE, KeySpecSalt)[1]
\* the timestamp they are exercised at where time plays no part
KeySpecNow == CHOOSE t \in Times : TRUE
\* ids are opaque and a new UUID differs from every stored one: the least
\* unused id stands for it
FreshIds(recs) ==
    LET free == Ids \ {r.id : r \in recs} IN
    IF free = {} THEN {} ELSE {CHOOSE i \in free : \A j \in free : i <= j}

NextKeys ==
    \/ \E pin \in KeyPins : InitVault(pin, KeySpecSalt)
    \/ \E pin \in KeyPins : Unlock(pin)
    \/ Lock
    \/ \E a \in AppNames, k \in KeyNames, v \in Values, d \in Descriptions,
          salt \in KeySalts, id \in FreshIds(records) :
          Create(a, k, v, << >>, d, salt, id, KeySpecNow)
    \/ \E a \in GetApps, k \in KeyNames : Get(a, k)
    \/ \E id \in Ids : GetById(id)
    \/ List
    \/ \E q \in Queries : Search(q)
    \/ Count
    \/ \E id \in Ids, request \in UpdateRequests, salt \in KeySalts :
          Update(id, request, salt, KeySpecNow)
    \/ \E id \in Ids : Delete(id)
    \/ \E a \in GetApps, k \in KeyNames : DeleteByName(a, k)

SpecKeys == Init /\ [][NextKeys]_vars

\* ------------------------------------------- concurrent use of AuthService
\* the PINs the concurrent calls are exercised with: the vault's and another
ConcPins == {[id |-> i, len |-> MIN_PIN_LENGTH, ascii |-> TRUE] : i \in {1, 2}}

NextConc ==
    \/ \E t \in TaskIds, pin \in KeyPins : StartInitVault(t, pin, KeySpecSalt)
    \/ \E t \in TaskIds : InitCheck(t)
    \/ \E t \in TaskIds : InitCreateTable(t)
    \/ \E t \in TaskIds : InitInsert(t)
    \/ \E t \in TaskIds : InitSetKey(t)
    \/ \E t \in TaskIds : InitSetFlag(t)
    \/ \E t \in TaskIds, pin \in ConcPins :
          /\ pin \in KeyPins \/ failed_attempts < MaxConcFails
          /\ StartUnlock(t, pin)
    \/ \E t \in TaskIds : UnlockLimit(t)
    \/ \E t \in TaskIds : UnlockVerify(t)
    \/ \E t \in TaskIds : UnlockFail(t)
    \/ \E t \in TaskIds : UnlockReset(t)
    \/ \E t \in TaskIds : UnlockSetKey(t)
    \/ \E t \in TaskIds : UnlockSetFlag(t)
    \/ \E t \in TaskIds : StartLock(t)
    \/ \E t \in TaskIds : LockClearKey(t)
    \/ \E t \in TaskIds : LockClearFlag(t)
    \/ \E t \in TaskIds, old \in KeyPins, new \in ConcPins :
          StartChangePin(t, old, new, KeySpecSalt)
    \/ \E t \in TaskIds : ChangeUpdate(t)
    \/ \E t \in TaskIds : ChangeSetKey(t)

SpecConc == Init /\ [][NextConc]_vars

\* unlock calls of several tasks on an initialized vault, with the vault's
\* PIN and with a wrong one, up to and past the rate limit
NextLimit ==
    \/ \E pin \in KeyPins : InitVault(pin, KeySpecSalt)
    \/ \E t \in TaskIds, pin \in ConcPins : cfg # << >> /\ StartUnlock(t, pin)
    \/ \E t \in TaskIds : UnlockLimit(t)
    \/ \E t \in TaskIds : UnlockVerify(t)
    \/ \E t \in TaskIds : UnlockFail(t)
    \/ \E t \in TaskIds : UnlockReset(t)
    \/ \E t \in TaskIds : UnlockSetKey(t)
    \/ \E t \in TaskIds : UnlockSetFlag(t)

SpecLimit == Init /\ [][NextLimit]_vars

\* change_pin calls of several tasks on an initialized vault, each from
\* either PIN to either PIN; calls with a wrong old PIN stop at MaxConcFails
\* failures
NextChange ==
    \/ \E pin \in KeyPins : InitVault(pin, KeySpecSalt)
    \/ \E t \in TaskIds, old \in ConcPins, new \in ConcPins :
          /\ cfg # << >>
          /\ <<old>> = vaultPin \/ failed_attempts < MaxConcFails
          /\ StartChangePin(t, old, new, KeySpecSalt)
    \/ \E t \in TaskIds : UnlockLimit(t)
    \/ \E t \in TaskIds : UnlockVerify(t)
    \/ \E t \in TaskIds : UnlockFail(t)
    \/ \E t \in TaskIds : UnlockReset(t)
    \/ \E t \in TaskIds : UnlockSetKey(t)
    \/ \E t \in TaskIds : UnlockSetFlag(t)
    \/ \E t \in TaskIds : ChangeUpdate(t)
    \/ \E t \in TaskIds : ChangeSetKey(t)

SpecChange == Init /\ [][NextChange]_vars

\* the process stops at any point and is started again: AuthService::new
\* over the same database file, every call in progress is gone
Restart ==
    /\ tasks' = [t \in TaskIds |-> IdleTask]
    /\ vault_key' = << >>
    /\ is_unlocked' = FALSE
    /\ failed_attempts' = 0
    /\ last' = [NoLast EXCEPT !.op = "restart"]
    /\ UNCHANGED <<cfgTable, cfg, records, vaultPin, initOk, manager, db>>

\* init_vault by steps, unlock and init_vault as whole calls, and restarts
\* of the process
NextInit ==
    \/ \E t \in TaskIds, pin \in KeyPins : StartInitVault(t, pin, KeySpecSalt)
    \/ \E t \in TaskIds : InitCheck(t)
    \/ \E t \in TaskIds : InitCreateTable(t)
    \/ \E t \in TaskIds : InitInsert(t)
    \/ \E t \in TaskIds : InitSetKey(t)
    \/ \E t \in TaskIds : InitSetFlag(t)
    \/ \E pin \in KeyPins : Unlock(pin)
    \/ Restart

SpecInit == Init /\ [][NextInit]_vars

\* PIN changes over a vault that holds records: the auth operations with
\* two PINs of distinct verification bytes, create and get
NextPin ==
    \/ \E pin \in KeyPins : InitVault(pin, KeySpecSalt)
    \/ \E pin \in ConcPins : Unlock(pin)
    \/ Lock
    \/ \E old_pin \in ConcPins, new_pin \in ConcPins, salt \in Salts :
          ChangePin(old_pin, new_pin, salt)
    \/ \E key_name \in KeyNames, id \in FreshIds(records) :
          Create(<<"a">>, key_name, "v1", << >>, << >>, KeySpecSalt, id,
                 KeySpecNow)
    \/ \E key_name \in KeyNames : Get("a", key_name)

SpecPin == Init /\ [][NextPin]_vars

\* the key name of the one record whose edits are followed
MetaKey == "k1"

\* the updates that race: a new value, a new app_name, a new description
RaceRequests ==
    {[app_name |-> << >>, key_name |-> << >>, key_value |-> <<"v2">>,
      api_url |-> << >>, description |-> << >>],
     [app_name |-> << <<"a">> >>, key_name |-> << >>, key_value |-> << >>,
      api_url |-> << >>, description |-> << >>],
     [app_name |-> << >>, key_name |-> << >>, key_value |-> << >>,
      api_url |-> << >>, description |-> << <<"d">> >>]}

\* the GUI: the commands of a user in any order, with the activity counter
\* and the auto-lock checker running beside them; wrong PINs stop at
\* MaxConcFails failures
NextAuto ==
    \/ \E pin \in Pins : ManagerInitialize(pin, KeySpecSalt)
    \/ \E pin \in ConcPins :
          /\ manager.failed_attempts < MaxConcFails
                \/ (cfg # << >> /\ FirstByte(DeriveKeyFromPin(pin, cfg[1].salt)[1])
                                      = ExpectedByte(cfg[1].pin_hash))
          /\ ManagerUnlock(pin)
    \/ ManagerLock
    \/ UpdateActivity
    \/ CheckAutoLock
    \/ Tick
    \/ CheckerPoll
    \/ CheckerClearKey
    \/ CheckerClearFlag

SpecAuto == Init /\ [][NextAuto]_vars

\* the background tasks keep running
SpecAutoFair ==
    /\ SpecAuto
    /\ WF_vars(Tick)
    /\ WF_vars(CheckerPoll)
    /\ WF_vars(CheckerClearKey)
    /\ WF_vars(CheckerClearFlag)

\* no task has made a record call yet
NoCalls == \A t \in TaskIds : tasks[t].call = << >>

\* the store is filled, then each task makes one update or delete call, the
\* calls running at the same time
NextRace ==
    \/ \E pin \in KeyPins : NoCalls /\ InitVault(pin, KeySpecSalt)
    \/ \E id \in FreshIds(records) :
          /\ NoCalls
          /\ Create(<< >>, MetaKey, "v1", << >>, << >>, KeySpecSalt, id,
                    KeySpecNow)
    \/ \E t \in TaskIds, id \in Ids, request \in RaceRequests :
          tasks[t].call = << >> /\ UpdateRead(t, id, request)
    \/ \E t \in TaskIds : UpdateWrite(t, KeySpecSalt, KeySpecNow)
    \/ \E t \in TaskIds, id \in Ids :
          tasks[t].call = << >> /\ DeleteRead(t, id)
    \/ \E t \in TaskIds : DeleteWrite(t)

SpecRace == Init /\ [][NextRace]_vars

\* the updates that edit the api_url and the description, with or without
\* the names and the value
MetaRequests ==
    [app_name : {<< >>, << << >> >>, << <<"a">> >>},
     key_name : {<< >>, <<MetaKey>>},
     key_value : {<< >>, <<"v2">>},
     api_url : {<< >>, << <<"u">> >>},
     description : {<< >>, << <<"d">> >>}]

\* a record created bare, then edited and deleted, with per-secret salts and
\* timestamps that differ from call to call
NextMeta ==
    \/ \E pin \in KeyPins : InitVault(pin, KeySpecSalt)
    \/ \E pin \in KeyPins : Unlock(pin)
    \/ Lock
    \/ \E salt \in Salts, id \in FreshIds(records), now \in Times :
          Create(<< >>, MetaKey, "v1", << >>, << >>, salt, id, now)
    \/ \E id \in Ids, request \in MetaRequests, salt \in Salts, now \in Times :
          Update(id, request, salt, now)
    \/ \E id \in Ids : Delete(id)

SpecMeta == Init /\ [][NextMeta]_vars

\* create called with any key_name and value, the empty strings included
NextEmpty ==
    \/ \E pin \in KeyPins : InitVault(pin, KeySpecSalt)
    \/ \E pin \in KeyPins : Unlock(pin)
    \/ Lock
    \/ \E debug_assertions \in BOOLEAN, a \in {<< >>, <<"a">>},
          k \in KeyNames \cup {""}, v \in Values \cup {""},
          id \in FreshIds(records) :
          CreateBuilt(debug_assertions, a, k, v, KeySpecSalt, id, KeySpecNow)

SpecEmpty == Init /\ [][NextEmpty]_vars

\* --------------------------------------------------- decrypt on any input
\* the keys decrypt is given
BlobKeys == {DerivePerKey("m", "a", key_name, KeySpecSalt) : key_name \in KeyNames}

\* the EncryptedData values: any nonce length around 12, any ciphertext
\* length from 0, and for the non-empty ones either the output of encrypt
\* under one of the keys or other bytes
Blobs ==
    {e \in [nonce_len : {0, NONCE_LEN - 1, NONCE_LEN, NONCE_LEN + 1},
            len : 0..MaxBlobLen,
            sealed : {<< >>} \cup {<<Encrypt(v, k)>> : v \in Values, k \in BlobKeys}] :
        e.sealed # << >> => e.len > 0}

\* a call of decrypt
DecryptCall(debug_assertions, encrypted, key) ==
    /\ LET o == DecryptData(debug_assertions, encrypted, key) IN
       last' = KeyLast("decrypt", o.res,
                       <<[debug_assertions |-> debug_assertions,
                          encrypted |-> encrypted, key |-> key,
                          out |-> o.out]>>)
    /\ UNCHANGED <<cfgTable, cfg, vault_key, is_unlocked, failed_attempts,
                   records, vaultPin, tasks, initOk, manager, db>>

NextBlob ==
    \E debug_assertions \in BOOLEAN, encrypted \in Blobs, key \in BlobKeys :
        DecryptCall(debug_assertions, encrypted, key)

SpecBlob == Init /\ [][NextBlob]_vars

\* ------------------------------------------- per-key keys of any context
\* app names and key names with and without the separator of the context
CtxApps == {"", "a", "a|b", "|"}
CtxKeys == {"k", "b|k", "|k", "a|k"}

\* a call of derive_per_key_encryption_key; last keeps this call and the one
\* before it
DeriveCall(master_key, app_name, key_name, salt) ==
    /\ LET call == [master_key |-> master_key, app_name |-> app_name,
                    key_name |-> key_name, salt |-> salt,
                    key |-> DerivePerKey(master_key, app_name, key_name, salt)]
       IN last' = KeyLast("derive_per_key_encryption_key", "Ok",
                          IF last.op = "derive_per_key_encryption_key"
                          THEN <<call, last.arg[1]>> ELSE <<call>>)
    /\ UNCHANGED <<cfgTable, cfg, vault_key, is_unlocked, failed_attempts,
                   records, vaultPin, tasks, initOk, manager, db>>

NextCtx ==
    \E app_name \in CtxApps, key_name \in CtxKeys, salt \in Salts :
        DeriveCall(DbMasterKey, app_name, key_name, salt)

SpecCtx == Init /\ [][NextCtx]_vars

\* ------------------------------------------------- opening a stored file
\* a row of the version-1 api_keys table: no key_salt column, the value
\* encrypted directly under the master key
V1Row(id, app_name, key_name, key_value) ==
    [id |-> id, app_name |-> app_name, key_name |-> key_name,
     api_url |-> << >>, description |-> << >>,
     encrypted_key_value |-> Encrypt(key_value, DbMasterKey),
     created_at |-> KeySpecNow, updated_at |-> KeySpecNow,
     written |-> key_value]

\* a row of the current api_keys table written by encrypt_api_key
V2Row(id, app_name, key_name, key_value, key_salt) ==
    [id |-> id, app_name |-> app_name, key_name |-> key_name,
     api_url |-> << >>, description |-> << >>,
     encrypted_key_value |->
         EncryptApiKey(key_value, DbMasterKey, AppStr(app_name), key_name,
                       key_salt),
     key_salt |-> key_salt,
     created_at |-> KeySpecNow, updated_at |-> KeySpecNow,
     written |-> key_value]

\* a row of the current api_keys table that still has the version-1
\* ciphertext and the all-zero key_salt
DefaultSaltRow(id, app_name, key_name, key_value) ==
    MigratedRow(V1Row(id, app_name, key_name, key_value), DEFAULT_SALT)

\* a file as it is found on disk
FileOf(schema_version, api_keys, api_keys_v2) ==
    [NewFile EXCEPT !.schema_version = schema_version, !.api_keys = api_keys,
                    !.api_keys_v2 = api_keys_v2,
                    !.found = <<schema_version, api_keys, api_keys_v2>>]

\* version-1 stores: app_name NOT NULL, UNIQUE(app_name, key_name), no
\* schema_version table
V1RowSets ==
    {{},
     {V1Row(1, <<"a">>, "k1", "v1")},
     {V1Row(1, <<"a">>, "k1", "v1"), V1Row(2, <<"">>, "k2", "v2")},
     {V1Row(1, <<"a">>, "k1", "v1"), V1Row(2, <<"">>, "k1", "v2")}}

V1Files ==
    {FileOf(<< >>, << [has_key_salt |-> FALSE, rows |-> rows] >>, << >>) :
        rows \in V1RowSets}

\* stores written by a later version of the program
NewerFiles ==
    {FileOf(<< versions >>, << [has_key_salt |-> TRUE, rows |-> rows] >>, v2) :
        versions \in {{SCHEMA_VERSION + 1}, {SCHEMA_VERSION, SCHEMA_VERSION + 1}},
        rows \in {{}, {V2Row(1, <<"a">>, "k1", "v1", KeySpecSalt)}},
        v2 \in {<< >>, << {} >>}}

\* current stores whose rows are partly or wholly not yet re-encrypted
DefaultSaltFiles ==
    {FileOf(<< {SCHEMA_VERSION} >>, << [has_key_salt |-> TRUE, rows |-> rows] >>, << >>) :
        rows \in {{DefaultSaltRow(1, <<"a">>, "k1", "v1")},
                  {DefaultSaltRow(1, <<"a">>, "k1", "v1"),
                   DefaultSaltRow(2, << >>, "k2", "v2")},
                  {DefaultSaltRow(1, <<"a">>, "k1", "v1"),
                   V2Row(2, << >>, "k2", "v2", KeySpecSalt)}}}

InitDb == InitState /\ db \in {NewFile} \cup V1Files \cup NewerFiles \cup DefaultSaltFiles

NextDb ==
    \/ Open
    \/ InitSchemaVersion
    \/ InitSchemaKeys
    \/ Migrate
    \/ MigrateCreate
    \/ MigrateSelect
    \/ \E key_salt \in Salts : MigrateCopy(key_salt)
    \/ MigrateDrop
    \/ MigrateRename
    \/ RecordVersion
    \/ Cleanup
    \/ Stop
    \/ ReencryptSelect
    \/ \E key_salt \in Salts : ReencryptRow(DbMasterKey, key_salt)
    \/ ReencryptReturn

SpecDb == InitDb /\ [][NextDb]_vars

\* ------------------------------------------------------------------ claims
KeyOps == {"create", "get", "get_by_id", "list", "search", "update", "delete",
           "delete_by_name", "count"}

\* the key of the vault's PIN and the stored salt: the master key that the
\* last successful init_vault or change_pin established
MasterKey == DeriveKeyFromPin(vaultPin[1], cfg[1].salt)

\* C1: every KeyService operation invoked while the vault is not unlocked
\* fails with Locked, returns no record data and leaves the stored records
\* unchanged.
C1_LockedOperationsFail ==
    /\ [](~is_unlocked =>
            /\ \A a \in GetApps, k \in KeyNames :
                  GetOutcome(a, k, is_unlocked, vault_key, records)
                      = [res |-> "Locked", out |-> << >>]
            /\ \A id \in Ids :
                  /\ GetByIdOutcome(id, is_unlocked, vault_key, records)
                        = [res |-> "Locked", out |-> << >>]
                  /\ DeleteOutcome(id, is_unlocked, records)
                        = [res |-> "Locked", out |-> << >>, recs |-> records]
            /\ ListOutcome(is_unlocked, records) = [res |-> "Locked", out |-> << >>]
            /\ CountOutcome(is_unlocked, records) = [res |-> "Locked", out |-> << >>]
            /\ \A q \in Queries :
                  SearchOutcome(q, is_unlocked, records)
                      = [res |-> "Locked", out |-> << >>])
    /\ [][(~is_unlocked /\ last'.op \in KeyOps)
            => (last'.res = "Locked" /\ records' = records)]_vars

\* C1 witness: a record operation was refused on a locked vault that holds
\* records
C1_Witness ==
    /\ ~is_unlocked
    /\ records # {}
    /\ last.op \in {"create", "update", "delete", "delete_by_name", "list"}
    /\ last.res = "Locked"

\* C4: with the master key fixed, every stored record decrypts under the
\* key derived from the master key, the record's stored app_name and
\* key_name and its stored per-secret salt, and get and get_by_id return the
\* value most recently written to the record.
C4_RecordsDecryptUnderStoredContext ==
    cfg # << >> =>
        \A r \in records :
            /\ DecryptApiKey(r.encrypted_key_value, MasterKey[1],
                             AppStr(r.app_name), r.key_name, r.key_salt)
                  = <<r.written>>
            /\ is_unlocked =>
                  /\ GetByIdOutcome(r.id, is_unlocked, vault_key, records).res = "Ok"
                  /\ GetByIdOutcome(r.id, is_unlocked, vault_key, records)
                        .out[1].key_value = r.written
                  /\ GetOutcome(AppStr(r.app_name), r.key_name, is_unlocked,
                                vault_key, records).res = "Ok"
                  /\ GetOutcome(AppStr(r.app_name), r.key_name, is_unlocked,
                                vault_key, records).out[1]
                        = [id |-> r.id, app_name |-> r.app_name,
                           key_name |-> r.key_name, key_value |-> r.written,
                           api_url |-> r.api_url,
                           description |-> r.description,
                           created_at |-> r.created_at,
                           updated_at |-> r.updated_at]

\* C4 witness: two records are stored after creates and an update that gave
\* no value, one of them holding the second value, the vault unlocked
C4_Witness ==
    /\ is_unlocked
    /\ Cardinality(records) = 2
    /\ last.op = "update" /\ last.res = "Ok" /\ last.arg = << >>
    /\ \E r \in records : r.app_name = << >> /\ r.written = "v2"

\* the rows whose (app_name, key_name) the step changed, old and new
Renamed(old_recs, new_recs) ==
    {p \in old_recs \X new_recs :
        /\ p[1].id = p[2].id
        /\ (p[1].app_name # p[2].app_name \/ p[1].key_name # p[2].key_name)}

\* after the step, get by the old pair is NotFound and get by the new pair
\* returns the value: the one the update was given, else the old one
RenameVisible(p) ==
    /\ GetOutcome(AppStr(p[1].app_name), p[1].key_name,
                  is_unlocked', vault_key', records').res = "NotFound"
    /\ GetOutcome(AppStr(p[2].app_name), p[2].key_name,
                  is_unlocked', vault_key', records').res = "Ok"
    /\ GetOutcome(AppStr(p[2].app_name), p[2].key_name,
                  is_unlocked', vault_key', records').out[1].key_value
          = IF last'.arg # << >> THEN last'.arg[1]
            ELSE GetByIdOutcome(p[1].id, is_unlocked, vault_key, records)
                     .out[1].key_value

\* C5 as stated: after update changes a record's app_name or key_name (to a
\* name, or to/from no app_name), get by the old pair fails with NotFound
\* and get by the new pair returns the original value (or the new one).
C5_Original ==
    [][(last'.op = "update" /\ last'.res = "Ok")
         => \A p \in Renamed(records, records') : RenameVisible(p)]_vars

\* C5 amended: the same whenever the pair that get addresses changes, an
\* absent app_name and the empty app_name being the same pair for get.
C5_RenameReencrypts ==
    [][(last'.op = "update" /\ last'.res = "Ok")
         => \A p \in Renamed(records, records') :
               (AppStr(p[1].app_name) # AppStr(p[2].app_name)
                  \/ p[1].key_name # p[2].key_name) => RenameVisible(p)]_vars

\* C5 witness: after an update that gave no value a record stands under app
\* "a" and key k2, encrypted for that pair, and get by ("", k1) finds nothing
C5_Witness ==
    /\ last.op = "update" /\ last.res = "Ok" /\ last.arg = << >>
    /\ is_unlocked
    /\ \E r \in records :
          /\ r.app_name = <<"a">> /\ r.key_name = "k2"
          /\ r.encrypted_key_value.key.ctx = "a|k2"
    /\ GetOutcome("", "k1", is_unlocked, vault_key, records).res = "NotFound"

\* C6: after change_pin(old, new) succeeds, every secret created before the
\* change (readable under the old PIN) is still returned with its original
\* value by get once the vault is unlocked with the new PIN.
C6_SecretsSurvivePinChange ==
    [][(last'.op = "change_pin" /\ last'.res = "Ok")
         => \A r \in records :
               LET before == DecryptRow(r, DeriveKeyFromPin(last'.arg[1],
                                                            cfg[1].salt)[1])
                   unlocked == UnlockOutcome(vaultPin'[1], cfgTable', cfg', << >>,
                                             FALSE, 0)
                   after == GetOutcome(AppStr(r.app_name), r.key_name,
                                       unlocked.unl, unlocked.key, records')
               IN before.res = "Ok" => after = before]_vars

\* C7: unlock(pin) succeeds only if the key derived from pin and the stored
\* salt is the master key established by the last successful init_vault or
\* change_pin; no other key is ever installed as the master key.
C7_OnlyTheMasterKeyUnlocks ==
    /\ (last.op = "unlock" /\ last.res = "Ok")
          => DeriveKeyFromPin(last.arg[1], cfg[1].salt) = MasterKey
    /\ vault_key # << >> => vault_key = MasterKey

\* C8: on an initialized vault with failed_attempts < 10, every unlock call
\* whose PIN is not the vault's PIN, of any length, fails with InvalidPin,
\* increases failed_attempts by exactly 1 and leaves is_unlocked and the
\* held key as they were.
C8_WrongPinCountsOneFailure ==
    [][(last'.op = "unlock" /\ cfg # << >>
          /\ failed_attempts < MAX_FAILED_ATTEMPTS /\ last'.arg # vaultPin)
         => /\ last'.res = "InvalidPin"
            /\ failed_attempts' = failed_attempts + 1
            /\ UNCHANGED <<is_unlocked, vault_key>>]_vars

\* C9: once failed_attempts has reached 10, every unlock call fails with
\* TooManyAttempts without delaying, without verifying the PIN and without
\* changing failed_attempts, the lock state or the held key; in sequential
\* use failed_attempts never exceeds 10.
C9_TooManyAttempts ==
    /\ [](failed_attempts <= MAX_FAILED_ATTEMPTS)
    /\ [][(last'.op = "unlock" /\ failed_attempts >= MAX_FAILED_ATTEMPTS)
            => /\ last'.res = "TooManyAttempts"
               /\ last'.slept = 0
               /\ ~last'.verified
               /\ UNCHANGED <<failed_attempts, is_unlocked, vault_key>>]_vars

\* C9 witness: an unlock with the vault's PIN was refused at 10 failures
C9_Witness ==
    /\ failed_attempts = MAX_FAILED_ATTEMPTS
    /\ last.op = "unlock" /\ last.res = "TooManyAttempts"
    /\ last.arg = vaultPin

\* C10: an unlock with the vault's current PIN on a locked, initialized vault
\* with failed_attempts < 10 succeeds and leaves the vault unlocked with the
\* derived master key held and failed_attempts = 0.
C10_CorrectPinUnlocksAndResets ==
    [][(last'.op = "unlock" /\ cfg # << >> /\ last'.arg = vaultPin
          /\ ~is_unlocked /\ failed_attempts < MAX_FAILED_ATTEMPTS)
         => /\ last'.res = "Ok"
            /\ is_unlocked'
            /\ vault_key' = MasterKey
            /\ failed_attempts' = 0]_vars

\* C10 witness: an unlock with the vault's PIN succeeded after the longest
\* backoff (five or more failures came before it) and the counter is 0
C10_Witness ==
    /\ last.op = "unlock" /\ last.res = "Ok" /\ last.arg = vaultPin
    /\ last.slept = Pow2(MAX_BACKOFF_EXP)
    /\ is_unlocked /\ vault_key = MasterKey
    /\ failed_attempts = 0

\* C2: whenever no auth call is in progress, a master key is held if and
\* only if is_unlocked is true.
C2_KeyHeldIffUnlocked ==
    Idle => (vault_key # << >> <=> is_unlocked)

\* C3: get_vault_key returns a master key only in states where is_unlocked
\* is true, the states between the steps of a running call included.
C3_NoKeyWhileLocked ==
    ~is_unlocked => GetVaultKey(vault_key) = << >>

\* C11: over any interleaving of init_vault calls at most one succeeds; an
\* init_vault call with a valid PIN that checks for a vault once the
\* VaultConfig exists fails with AlreadyInitialized and leaves the stored
\* salt and verification artifact, the lock state and the held key
\* unchanged; a VaultConfig, once it exists, exists from then on.
C11_InitializedOnce ==
    /\ [](initOk <= 1)
    /\ [][cfg # << >> => Len(cfg') = 1]_vars
    /\ [][\A t \in TaskIds :
            (/\ tasks[t].pc = "i_check" /\ tasks'[t].pc # "i_check"
             /\ cfg # << >> /\ ValidatePin(tasks[t].pin[1]) = "Ok")
            => /\ tasks'[t].pc = "idle"
               /\ last'.op = "init_vault" /\ last'.res = "AlreadyInitialized"
               /\ UNCHANGED <<cfg, is_unlocked, vault_key, initOk>>]_vars

\* C11 witness: one init_vault succeeded, the vault was locked, and a later
\* init_vault call returned AlreadyInitialized; the vault is still locked
C11_Witness ==
    /\ initOk = 1 /\ cfg # << >>
    /\ Idle
    /\ last.op = "init_vault" /\ last.res = "AlreadyInitialized"
    /\ ~is_unlocked /\ vault_key = << >>

\* C12: init_vault on an already initialized vault fails with
\* AlreadyInitialized whatever PIN is passed, a PIN shorter than 6
\* characters included.
C12_AlreadyInitializedForAnyPin ==
    [][(last'.op = "init_vault" /\ cfg # << >>)
         => last'.res = "AlreadyInitialized"]_vars

\* init_vault stored nothing and left the vault locked with no key
InitRejected ==
    /\ cfg' = << >>
    /\ ~is_unlocked' /\ vault_key' = << >>
    /\ initOk' = initOk

\* C13 as stated: init_vault(pin) on an uninitialized vault fails with
\* PinTooShort when pin has fewer than 6 characters and with PinTooLong when
\* it has more than 64, creating no VaultConfig and leaving the vault locked
\* with no key; every PIN of 6 to 64 characters is accepted.
C13_Original ==
    [][(last'.op = "init_vault" /\ cfg = << >>)
         => LET pin == last'.arg[1] IN
            IF Chars(pin) < MIN_PIN_LENGTH
            THEN last'.res = "PinTooShort" /\ InitRejected
            ELSE IF Chars(pin) > MAX_PIN_LENGTH
            THEN last'.res = "PinTooLong" /\ InitRejected
            ELSE last'.res = "Ok" /\ cfg' # << >>]_vars

\* C13 amended: the same for PINs of printable ASCII characters; a PIN with
\* any other character is never accepted: it fails with PinTooShort,
\* PinTooLong (by its length in bytes) or InvalidInput and creates nothing.
C13_PinLengthValidated ==
    [][(last'.op = "init_vault" /\ cfg = << >>)
         => LET pin == last'.arg[1] IN
            IF ~pin.ascii
            THEN /\ last'.res \in {"PinTooShort", "PinTooLong", "InvalidInput"}
                 /\ InitRejected
            ELSE IF Chars(pin) < MIN_PIN_LENGTH
            THEN last'.res = "PinTooShort" /\ InitRejected
            ELSE IF Chars(pin) > MAX_PIN_LENGTH
            THEN last'.res = "PinTooLong" /\ InitRejected
            ELSE /\ last'.res = "Ok" /\ cfg' # << >>
                 /\ is_unlocked' /\ vault_key' # << >>]_vars

\* C13 witness: init_vault with a PIN of more than 64 characters returned
\* PinTooLong on a vault that has no VaultConfig and is locked
C13_Witness ==
    /\ last.op = "init_vault" /\ last.res = "PinTooLong"
    /\ Chars(last.arg[1]) > MAX_PIN_LENGTH
    /\ cfg = << >> /\ ~is_unlocked /\ vault_key = << >>

\* C14: unlock(pin) on a store in which no VaultConfig exists fails with
\* NotInitialized, for every pin, and leaves the vault locked with
\* failed_attempts unchanged.
C14_UnlockNotInitialized ==
    [][(last'.op = "unlock" /\ cfg = << >>)
         => /\ last'.res = "NotInitialized"
            /\ ~is_unlocked'
            /\ failed_attempts' = failed_attempts]_vars

\* C15: lock() succeeds from every state, and when it returns with no other
\* auth call in progress is_unlocked is false, no master key is held and
\* get_vault_key fails.
C15_LockLeavesLocked ==
    [][\A t \in TaskIds :
         (/\ tasks[t].op = "lock" /\ tasks[t].pc # "idle"
          /\ tasks'[t].pc = "idle" /\ Idle')
         => /\ last'.op = "lock" /\ last'.res = "Ok"
            /\ ~is_unlocked'
            /\ vault_key' = << >>
            /\ GetVaultKey(vault_key') = << >>]_vars

\* C16: after change_pin(old, new) succeeds the vault is Unlocked holding
\* the key derived from new and the newly stored salt, exactly one
\* VaultConfig exists, and after a following lock() unlock(new) succeeds
\* while unlock(old) fails with InvalidPin.
C16_PinChanged ==
    [][(last'.op = "change_pin" /\ last'.res = "Ok")
         => LET old == last'.arg[1]
                new == vaultPin'[1]
                AfterLock(pin) == UnlockOutcome(pin, cfgTable', cfg', << >>,
                                                FALSE, failed_attempts')
            IN /\ is_unlocked'
               /\ Len(cfg') = 1
               /\ vault_key' = DeriveKeyFromPin(new, cfg'[1].salt)
               /\ AfterLock(new).res = "Ok"
               /\ old # new => AfterLock(old).res = "InvalidPin"]_vars

\* the vault's PIN unlocks the vault from the locked state after the step
VaultPinUnlocks ==
    UnlockOutcome(vaultPin'[1], cfgTable', cfg', << >>, FALSE,
                  failed_attempts').res = "Ok"

\* C17 as stated: a change_pin call that fails because the old PIN is wrong
\* (InvalidPin) or the new PIN is too short or too long leaves the persisted
\* salt and verification artifact, the held master key and the lock state
\* unchanged, so the old PIN still unlocks the vault.
C17_Original ==
    [][(/\ last'.op = "change_pin" /\ cfg # << >>
        /\ last'.res \in {"InvalidPin", "PinTooShort", "PinTooLong"})
         => /\ UNCHANGED <<cfg, vault_key, is_unlocked, vaultPin>>
            /\ VaultPinUnlocks]_vars

\* C17 amended: such a call leaves them unchanged, and the vault's PIN
\* unlocks the vault afterwards provided failed_attempts, which a wrong old
\* PIN increases by one, is below 10.
C17_FailedChangePinKeepsVault ==
    [][(/\ last'.op = "change_pin" /\ cfg # << >>
        /\ last'.res \in {"InvalidPin", "PinTooShort", "PinTooLong"})
         => /\ UNCHANGED <<cfg, vault_key, is_unlocked, vaultPin>>
            /\ failed_attempts' =
                  failed_attempts + (IF last'.res = "InvalidPin" THEN 1 ELSE 0)
            /\ failed_attempts' < MAX_FAILED_ATTEMPTS => VaultPinUnlocks]_vars

\* C17 witness: change_pin failed with InvalidPin on an unlocked vault that
\* still holds the key of its PIN
C17_Witness ==
    /\ last.op = "change_pin" /\ last.res = "InvalidPin"
    /\ last.arg # vaultPin
    /\ is_unlocked /\ vault_key = MasterKey
    /\ failed_attempts \in 1..(MAX_FAILED_ATTEMPTS - 1)

C20_EmptyInputRejected ==
    /\ [](is_unlocked =>
            \A a \in AppNames, k \in KeyNames \cup {""}, v \in Values \cup {""},
               id \in FreshIds(records) :
               (k = "" \/ v = "")
                 => LET o == CreateOutcome(a, k, v, << >>, << >>, KeySpecSalt,
                                           id, KeySpecNow, is_unlocked,
                                           vault_key, records)
                    IN o.res # "Ok" /\ o.recs = records)
    /\ [][last'.op = "create"
            => \A r \in records' \ records :
                  r.key_name # "" /\ r.written # ""]_vars

\* the update request leaves the app_name and the key_name of r as stored
KeepsNames(request, r) ==
    /\ request.app_name = << >> \/ request.app_name = <<r.app_name>>
    /\ request.key_name = << >> \/ request.key_name = <<r.key_name>>

\* the fields an edit of api_url and description must not touch
SameSecret(r1, r2) ==
    /\ r1.encrypted_key_value = r2.encrypted_key_value
    /\ r1.key_salt = r2.key_salt
    /\ r1.app_name = r2.app_name
    /\ r1.key_name = r2.key_name
    /\ r1.created_at = r2.created_at

\* C21: an update that gives no value and leaves app_name and key_name as
\* stored (only api_url and description edited) succeeds on an unlocked vault
\* and leaves the record's ciphertext with its nonce, per-secret salt,
\* app_name, key_name and created_at unchanged, and get returns the same
\* plaintext as before.
C21_MetadataOnlyUpdate ==
    /\ [](is_unlocked =>
            \A r \in records, request \in MetaRequests, salt \in Salts,
               now \in Times :
               (request.key_value = << >> /\ KeepsNames(request, r))
                 => LET o == UpdateOutcome(r.id, request, salt, now,
                                           is_unlocked, vault_key, records)
                    IN /\ o.res = "Ok"
                       /\ \E r2 \in o.recs : r2.id = r.id /\ SameSecret(r, r2)
                       /\ GetOutcome(AppStr(r.app_name), r.key_name,
                                     is_unlocked, vault_key, o.recs).res = "Ok"
                       /\ GetOutcome(AppStr(r.app_name), r.key_name,
                                     is_unlocked, vault_key, o.recs)
                             .out[1].key_value
                          = GetOutcome(AppStr(r.app_name), r.key_name,
                                       is_unlocked, vault_key, records)
                               .out[1].key_value)
    /\ [][(last'.op = "update" /\ last'.res = "Ok" /\ last'.arg = << >>)
            => \A r \in records, r2 \in records' :
                  (r.id = r2.id /\ r.app_name = r2.app_name
                     /\ r.key_name = r2.key_name) => SameSecret(r, r2)]_vars

\* C21 witness: an update that gave no value has set the api_url and the
\* description of a record at a later time than its creation, and the
\* record still holds the value it was created with under its first salt
C21_Witness ==
    /\ last.op = "update" /\ last.res = "Ok" /\ last.arg = << >>
    /\ is_unlocked
    /\ \E r \in records :
          /\ r.api_url = <<"u">> /\ r.description = <<"d">>
          /\ r.updated_at # r.created_at
          /\ r.written = "v1"
          /\ GetOutcome(AppStr(r.app_name), r.key_name, is_unlocked,
                        vault_key, records).out[1].key_value = "v1"

\* C22: on an unlocked vault, delete(id) of a stored record removes exactly
\* that record and returns its metadata, every other record staying as it
\* was (the count drops by one); delete of an id that is not stored fails
\* with NotFound and changes nothing.
C22_DeleteRemovesExactlyOne ==
    /\ [](is_unlocked =>
            \A id \in Ids :
               LET o == DeleteOutcome(id, is_unlocked, records) IN
               /\ \A r \in records :
                     r.id = id =>
                        /\ o.res = "Ok"
                        /\ o.out = << Metadata(r) >>
                        /\ o.recs = records \ {r}
                        /\ Cardinality(o.recs) = Cardinality(records) - 1
               /\ (\A r \in records : r.id # id)
                     => o.res = "NotFound" /\ o.out = << >> /\ o.recs = records)
    /\ [][(last'.op = "delete" /\ is_unlocked)
            => \/ /\ last'.res = "Ok"
                  /\ \E r \in records :
                        r \notin records' /\ records' = records \ {r}
               \/ /\ last'.res = "NotFound"
                  /\ records' = records]_vars

\* C22 witness: a delete has succeeded on an unlocked vault and left the
\* other stored record in place
C22_Witness ==
    /\ last.op = "delete" /\ last.res = "Ok"
    /\ is_unlocked
    /\ Cardinality(records) = 1

\* a finished call run on its own on the rows recs: its result and the rows
\* it leaves
SeqCall(c, recs) ==
    IF c.op = "update"
    THEN UpdateOutcome(c.id, c.request, KeySpecSalt, KeySpecNow, is_unlocked,
                       vault_key, recs)
    ELSE [res |-> DeleteOutcome(c.id, is_unlocked, recs).res,
          recs |-> DeleteOutcome(c.id, is_unlocked, recs).recs]

\* the tasks' calls, run one after the other in this order from recs, return
\* what the tasks' calls returned and end with the rows now stored
RECURSIVE SeqMatches(_, _)
SeqMatches(order, recs) ==
    IF order = << >> THEN recs = records
    ELSE LET c == tasks[Head(order)].call[1]
             o == SeqCall(c, recs)
         IN o.res = c.res /\ SeqMatches(Tail(order), o.recs)

\* the orders of the tasks
Orders ==
    {o \in [1..MaxTasks -> TaskIds] : \A i, j \in 1..MaxTasks : o[i] = o[j] => i = j}

\* C23: when concurrent update and delete calls on one stored record have
\* all returned, their results and the rows then stored are those of the
\* same calls run one after the other in some order, starting from the rows
\* one of the calls started from.
C23_Linearizable ==
    (/\ \A t \in TaskIds : tasks[t].pc = "idle" /\ tasks[t].call # << >>
     /\ \A t, u \in TaskIds : tasks[t].call[1].id = tasks[u].call[1].id
     /\ \E t \in TaskIds :
           RowsById(tasks[t].call[1].base, tasks[t].call[1].id) # {})
      => \E t \in TaskIds, order \in Orders :
            SeqMatches(order, tasks[t].call[1].base)

\* C24: should_auto_lock() is true exactly when the session is unlocked and
\* the inactivity counter has reached the timeout: false one second short of
\* the timeout, true at the timeout, and false for a locked session whatever
\* the counter.
C24_ShouldAutoLock ==
    /\ [](/\ ShouldAutoLock(manager.is_unlocked, manager.last_activity_secs)
             <=> (/\ manager.is_unlocked
                  /\ manager.last_activity_secs >= AutoLockSecs)
          /\ ~ShouldAutoLock(TRUE, AutoLockSecs - 1)
          /\ ShouldAutoLock(TRUE, AutoLockSecs)
          /\ \A n \in 0..(AutoLockSecs + 1) : ~ShouldAutoLock(FALSE, n))
    /\ [][(last'.op = "should_auto_lock" /\ last' # last)
            => /\ manager' = manager
               /\ last'.arg = << /\ manager.is_unlocked
                                 /\ manager.last_activity_secs >= AutoLockSecs >>]_vars

\* C24 witness: should_auto_lock was called and returned true with the
\* counter at the timeout
C24_Witness ==
    /\ last.op = "should_auto_lock" /\ last.arg = <<TRUE>>
    /\ manager.is_unlocked
    /\ manager.last_activity_secs = AutoLockSecs

\* a step of an initialize, unlock or update_activity call
ActivityCall ==
    \/ \E pin \in Pins : ManagerInitialize(pin, KeySpecSalt)
    \/ \E pin \in ConcPins : ManagerUnlock(pin)
    \/ UpdateActivity

\* the session is locked: no key is held and is_unlocked is false
ManagerLocked == ~manager.is_unlocked /\ manager.vault_key = << >>

\* C25: if from some point on no update_activity, unlock or initialize call
\* occurs, then, with the one-second counter and the auto-lock checker
\* running fairly, an unlocked vault is eventually locked and stays so: the
\* key is wiped and is_unlocked is false.
C25_EventuallyLocked ==
    <>[][~ActivityCall]_vars => <>[]ManagerLocked


\* the schema version recorded in the file as it was found
FoundVersion == StoredVersion([schema_version |-> db.found[1]])

\* C26: opening a store whose recorded schema version is greater than
\* SCHEMA_VERSION fails with IncompatibleVersion and leaves the recorded
\* version and every stored record unchanged: the open never gets past the
\* version check, so there is no migration, no cleanup and no downgrade.
C26_NewerVersionRejected ==
    FoundVersion > SCHEMA_VERSION
        => /\ db.schema_version = db.found[1]
           /\ db.api_keys = db.found[2]
           /\ db.api_keys_v2 = db.found[3]
           /\ db.pc \in {"closed", "init_version", "init_keys", "migrate"}
           /\ db.res \in {"none", "stopped", "IncompatibleVersion"}

\* C26 witness: the open of a newer store that holds a record and a table
\* named api_keys_v2 has failed with IncompatibleVersion
C26_Witness ==
    /\ FoundVersion > SCHEMA_VERSION
    /\ db.found[2][1].rows # {}
    /\ db.found[3] # << >>
    /\ db.pc = "closed"
    /\ db.res = "IncompatibleVersion"

\* the file was found as a version-1 store: an api_keys table without the
\* key_salt column
FoundV1 == db.found[2] # << >> /\ ~db.found[2][1].has_key_salt

\* the records the file held when it was found
FoundRows == IF db.found[2] = << >> THEN {} ELSE db.found[2][1].rows

\* get_api_key gives the record with id of r the value r was written with
Readable(r) ==
    LET got == GetApiKey(r.id, DbMasterKey, db) IN
    got.res = "Ok" /\ got.out[1].key_value = r.written

\* C27: after a version-1 store is opened and migrated and
\* reencrypt_all_keys has run to its end with the vault's master key, every
\* record of the version-1 store is present and get returns its original
\* plaintext.
C27_MigratedReadable ==
    (FoundV1 /\ db.pc = "open" /\ db.complete)
        => \A r \in FoundRows : Readable(r)

\* the table api_keys holds the record r as it was found
Held(r) ==
    /\ db.api_keys # << >>
    /\ \E q \in db.api_keys[1].rows :
          /\ q.id = r.id
          /\ q.app_name = r.app_name
          /\ q.key_name = r.key_name
          /\ q.written = r.written

\* C28: if the process stops during a v1-to-v2 migration (after creating
\* api_keys_v2, after copying some rows, after dropping api_keys, or after
\* the rename and before the version is recorded), every later open
\* succeeds and leaves no migration table, the current schema version
\* recorded and every record the store held before the migration.
C28_InterruptedMigrationRecovers ==
    (FoundV1 /\ db.interrupted)
        => /\ db.pc = "closed" => db.res = "stopped"
           /\ db.pc = "open"
                 => /\ db.api_keys_v2 = << >>
                    /\ SCHEMA_VERSION \in db.schema_version[1]
                    /\ \A r \in FoundRows : Held(r)

\* the file was found as a current store
FoundCurrent == FoundVersion = SCHEMA_VERSION /\ db.found[2] # << >>

\* the stored row with the id of r opens to the value r was written with,
\* under the master key if it has the default salt and under its per-key
\* key otherwise
Decryptable(r) ==
    /\ db.api_keys # << >>
    /\ \E q \in db.api_keys[1].rows :
          /\ q.id = r.id
          /\ IF q.key_salt = DEFAULT_SALT
             THEN Decrypt(q.encrypted_key_value, DbMasterKey) = <<r.written>>
             ELSE LET got == DecryptRow(q, DbMasterKey) IN
                  got.res = "Ok" /\ got.out[1].key_value = r.written

C30_DecryptNeverPanics ==
    last.op = "decrypt"
        => LET call == last.arg[1] IN
           /\ last.res \in {"Ok", "InvalidNonceLength", "Decryption"}
           /\ call.encrypted.nonce_len # NONCE_LEN => last.res # "Ok"
           /\ call.encrypted.len = 0 => last.res # "Ok"
           /\ (\/ call.encrypted.sealed = << >>
               \/ call.encrypted.sealed[1].key # call.key) => last.res # "Ok"

\* C31: for a fixed master key and per-secret salt,
\* derive_per_key_encryption_key gives the same key for the same
\* (app_name, key_name) and different keys for every two distinct pairs,
\* an empty app_name and names that contain '|' included.
C31_ContextSeparatesKeys ==
    (last.op = "derive_per_key_encryption_key" /\ Len(last.arg) = 2)
        => LET c == last.arg[1]
               d == last.arg[2] IN
           (c.master_key = d.master_key /\ c.salt = d.salt)
               => (c.key = d.key
                     <=> (c.app_name = d.app_name /\ c.key_name = d.key_name))

\* task t compares the byte of its PIN's key in this step
Verifies(t) ==
    /\ tasks[t].pc = "u_verify"
    /\ tasks'[t].pc \in {"u_fail", "u_reset"}

\* C32: for any interleaving of concurrent unlock calls, failed_attempts
\* never exceeds 10, no PIN is verified once 10 failures are recorded since
\* the last successful unlock, and a verification made while a failure is
\* recorded comes after a backoff delay.
C32_RateLimitUnderConcurrency ==
    /\ [](failed_attempts <= MAX_FAILED_ATTEMPTS)
    /\ [][\A t \in TaskIds :
            Verifies(t) => /\ failed_attempts < MAX_FAILED_ATTEMPTS
                           /\ failed_attempts > 0 => tasks[t].slept > 0]_vars

\* the context the stored ciphertext of r was encrypted under
StoredContext(r) == r.encrypted_key_value.key.ctx

\* C33: for any interleaving of two concurrent update calls on the same
\* record, the stored app_name and key_name are the context the stored
\* ciphertext was encrypted under, so the record stays decryptable by get
\* and get_by_id.
C33_ConcurrentUpdatesKeepContext ==
    \A r \in records :
        /\ StoredContext(r) = AppStr(r.app_name) \o "|" \o r.key_name
        /\ (is_unlocked /\ vault_key # << >>)
              => /\ GetByIdOutcome(r.id, TRUE, vault_key, records).res = "Ok"
                 /\ GetOutcome(AppStr(r.app_name), r.key_name, TRUE, vault_key,
                               records).res = "Ok"

\* C34: whenever the vault is unlocked and no auth call is in progress, the
\* held master key is a key derived from the persisted salt and a PIN that
\* passes the persisted verification value, also after two concurrent
\* change_pin calls.
C34_HeldKeyMatchesConfig ==
    (Idle /\ is_unlocked /\ vault_key # << >> /\ cfg # << >>)
        => /\ vault_key[1].salt = cfg[1].salt
           /\ FirstByte(vault_key[1]) = ExpectedByte(cfg[1].pin_hash)

\* the value a field has after an update: the requested one, or the stored
\* one when the request leaves the field out
Resulting(requested, stored) ==
    IF requested = << >> THEN stored ELSE requested[1]

C36_InactivityCounter ==
    /\ [](/\ ~manager.is_unlocked => manager.last_activity_secs = 0
          /\ manager.last_activity_secs >= 0
          /\ manager.last_activity_secs <= manager.ticks)
    /\ [][/\ manager'.last_activity_secs # manager.last_activity_secs
             => \/ manager'.last_activity_secs = 0
                \/ /\ manager.is_unlocked
                   /\ manager'.last_activity_secs
                         = manager.last_activity_secs + 1
                   /\ manager'.ticks = manager.ticks + 1
          /\ UpdateActivity => manager'.last_activity_secs = 0
          /\ Tick => manager'.last_activity_secs
                        = manager.last_activity_secs + 1]_vars

\* C36 witness: the counter reached the timeout, update_activity set it to
\* 0 and one tick has passed since
C36_Witness ==
    /\ last.op = "update_activity"
    /\ manager.is_unlocked
    /\ manager.last_activity_secs = 1
    /\ manager.ticks = 1

\* C37: the auto-lock checker locks the vault only if the inactivity
\* counter is at least the timeout when the lock takes effect: after an
\* update_activity that lands between the checker's should_auto_lock() and
\* its lock(), the checker clears neither the key nor the session.
C37_CheckerLocksOnlyWhenIdle ==
    [][(CheckerClearKey \/ CheckerClearFlag)
         => manager.last_activity_secs >= AutoLockSecs]_vars

\* C38: is_initialized() is true only if a vault_config row exists, so
\* between calls the vault is never where init_vault fails with
\* AlreadyInitialized while unlock fails with NotInitialized, also after an
\* init_vault that was interrupted between its CREATE TABLE and its INSERT.
C38_InitializedMeansConfigRow ==
    Idle =>
      /\ IsInitialized => cfg # << >>
      /\ ~(/\ IsInitialized
           /\ \E pin \in KeyPins :
                 UnlockOutcome(pin, cfgTable, cfg, vault_key, is_unlocked,
                               failed_attempts).res = "NotInitialized")

\* the version the store records: the greatest row of schema_version
Recorded(d, v) ==
    /\ d.schema_version # << >>
    /\ v \in d.schema_version[1]
    /\ \A w \in d.schema_version[1] : w <= v

\* the positions of VaultDb::new
OpenPcs == {"closed", "init_version", "init_keys", "migrate", "cleanup"}

\* C39: after every successful open the recorded schema version is
\* SCHEMA_VERSION, and opening a store that already records SCHEMA_VERSION
\* runs no migration step and changes neither the recorded version nor any
\* stored record.
C39_OpenRecordsCurrentVersion ==
    /\ [](db.pc \in {"open", "reencrypt"} => Recorded(db, SCHEMA_VERSION))
    /\ [][(Recorded(db, SCHEMA_VERSION) /\ db.pc \in OpenPcs)
            => /\ db'.pc \in OpenPcs \cup {"open"}
               /\ db'.schema_version = db.schema_version
               /\ db'.api_keys = db.api_keys]_vars

\* C39 witness: a version-1 store was migrated, opened and re-encrypted, and
\* a second open of it has passed migrate and stands before its last step
C39_Witness ==
    /\ FoundV1
    /\ db.complete
    /\ db.pc = "cleanup"
    /\ Recorded(db, SCHEMA_VERSION)
    /\ db.api_keys[1].rows # {}

\* C40: before it verifies the PIN, unlock sleeps 2^min(failed_attempts, 5)
\* seconds when failed_attempts > 0 and does not sleep when it is 0: for
\* failed_attempts = 1..9 the delay is 2, 4, 8, 16, 32, 32, 32, 32, 32
\* seconds, which never decreases and never exceeds 32.
C40_BackoffDelay ==
    [][\A pin \in Pins :
          Unlock(pin) =>
            LET delays == <<2, 4, 8, 16, 32, 32, 32, 32, 32>> IN
            /\ failed_attempts = 0 => last'.slept = 0
            /\ failed_attempts \in 1..9
                  => /\ last'.slept = delays[failed_attempts]
                     /\ last'.slept = Pow2(Min(failed_attempts, 5))
                     /\ last'.slept <= 32
                     /\ failed_attempts > 1
                           => last'.slept >= delays[failed_attempts - 1]
            /\ last'.verified /\ failed_attempts > 0 => last'.slept >= 2]_vars

\* C40 witness: an unlock was called with nine failures counted, slept 32
\* seconds, verified the PIN and failed for the tenth time
C40_Witness ==
    /\ last.op = "unlock"
    /\ last.res = "InvalidPin"
    /\ last.verified
    /\ last.slept = 32
    /\ failed_attempts = 10

====
